---- MODULE Spec2Model ----
(***************************************************************************)
(* A model of the analytics core of the CI/CD metrics collector:           *)
(* the Diagnostic Engine (app/diagnostics.py), the Error Signature          *)
(* Extractor and Cross-Repo Error Analyzer (app/analytics/error_analyzer),  *)
(* the Pattern Matcher (app/analytics/pattern_matcher.py), the Regression   *)
(* Detector (app/analytics/regression_detector.py), the 28th-to-28th        *)
(* billing window (app/analytics/metrics_calculator.py) and the failure     *)
(* ingestion of the collector (app/collector.py).                           *)
(*                                                                         *)
(* Text is a sequence of one-character strings; a log is text with "\n"     *)
(* as the line separator.  Each component has its own specification over    *)
(* its own variables; the variables of the other components stay idle.      *)
(***************************************************************************)
EXTENDS Integers, Sequences, FiniteSets, TLC

VARIABLES
    findings,       \* diagnostics: what the detectors report on the stored data
    diagnostics,    \* diagnostics: the rows of the diagnostics table, in id order
    error_msg,      \* pattern matcher: the error message given
    pattern,        \* pattern matcher: the pattern returned, None before the call
    step_logs,      \* analyzer: the failed steps of the latest run and their logs
    failed_steps_data,  \* analyzer: what get_failed_step_logs returned
    failures,       \* store: the build_failures rows (with their build's repository), in id order
    other_repos,    \* analyzer: the last find_other_repos_with_error call and its result
    builds,         \* detector: the builds of one repository, in id order
    cutoff_date,    \* detector: now - 14 days, on the time scale of completed_on
    regression,     \* detector: what detect_build_duration_regression returned
    step_regression, \* detector: what detect_step_regression returned
    cross_regression, \* detector: what detect_cross_repo_step_regression returned
    steps,          \* detector: the build steps of one repository, in id order
    waste_findings, \* detector: what detect_resource_waste returned
    reference_date, \* metrics: the reference date of the 28th-to-28th window
    minutes28,      \* metrics: what calculate_build_minutes_28_to_28 returned
    build_store,    \* metrics: the builds rows (each with its build_steps), in id order
    minutes,        \* metrics: what calculate_build_minutes returned
    session,        \* collector: the tables as self.db sees them (builds, steps, failures, deployments, pull requests)
    last_collect,   \* collector: the last call of the collector and what the provider answered
    provider,       \* collector: the runs and deployments the provider holds
    enrichment,     \* suggestions: the creation of one diagnostic and what it returned
    latest_run,    \* analyzer: the provider's latest run of the repository analysed
    analysis,   \* analyzer: what analyze_latest_failure returned, and the calls it made
    committed,    \* overlap: for each table, the committed rows that carry the one key polled
    cycle    \* overlap: where each of the two collection-and-analysis cycles stands

diagVars == <<findings, diagnostics>>

patternVars == <<error_msg, pattern>>

analyzerVars == <<step_logs, failed_steps_data>>

storeVars == <<failures, other_repos>>

detectorVars == <<builds, cutoff_date, regression, step_regression, cross_regression>>

wasteVars == <<steps, waste_findings>>

windowVars == <<reference_date, minutes28, build_store, minutes>>

collectorVars == <<session, last_collect, provider>>

enrichVars == <<enrichment>>

latestVars == <<latest_run, analysis>>

overlapVars == <<committed, cycle>>

vars == <<findings, diagnostics, error_msg, pattern, step_logs, failed_steps_data,
          failures, other_repos, builds, cutoff_date, regression, step_regression,
          cross_regression,
          steps, waste_findings, reference_date, minutes28, build_store, minutes,
          session, last_collect, provider, enrichment, latest_run, analysis, committed, cycle>>

(***************************************************************************)
(* Generic helpers                                                         *)
(***************************************************************************)
Min(a, b) == IF a <= b THEN a ELSE b

Max(a, b) == IF a >= b THEN a ELSE b

NumRepos == 2

\* Repository.id of the repositories synced
Repos == 1..NumRepos

\* repository_id = None (NULL): cross-repository diagnostics
NoRepo == 0

(***************************************************************************)
(* Text: a Python str is a sequence of one-character strings               *)
(***************************************************************************)
\* the value of a result variable before the call that sets it
None == <<"None">>

EmptyStr == <<>>

Whitespace == {" ", "\t", "\n", "\r"}

Digits == {"0", "1", "2", "3", "4", "5", "6", "7", "8", "9"}

HexDigits == Digits \cup {"a", "b", "c", "d", "e", "f"}

UpperLetters == <<"A", "B", "C", "D", "E", "F", "G", "H", "I", "J", "K", "L", "M", "N", "O", "P", "Q", "R", "S", "T", "U", "V", "W", "X", "Y", "Z">>

LowerLetters == <<"a", "b", "c", "d", "e", "f", "g", "h", "i", "j", "k", "l", "m", "n", "o", "p", "q", "r", "s", "t", "u", "v", "w", "x", "y", "z">>

\* str.lower() on one character
LowerChar(c) ==
    IF \E k \in 1..Len(UpperLetters) : UpperLetters[k] = c
    THEN LowerLetters[CHOOSE k \in 1..Len(UpperLetters) : UpperLetters[k] = c]
    ELSE c

Lower(s) == [i \in 1..Len(s) |-> LowerChar(s[i])]

\* s[:n]
Prefix(s, n) == SubSeq(s, 1, Min(n, Len(s)))

\* s[-n:]
Suffix(s, n) == SubSeq(s, Max(1, Len(s) - n + 1), Len(s))

\* w in s (w not empty)
Contains(s, w) ==
    \E i \in 1..(Len(s) - Len(w) + 1) : SubSeq(s, i, i + Len(w) - 1) = w

\* str.strip()
Strip(s) ==
    LET inner == {i \in 1..Len(s) : s[i] \notin Whitespace}
    IN  IF inner = {} THEN EmptyStr
        ELSE SubSeq(s, CHOOSE i \in inner : \A j \in inner : i <= j,
                       CHOOSE i \in inner : \A j \in inner : j <= i)

\* the last index of the longest run of characters of cs that starts at i
\* (i - 1 when s[i] is not in cs)
RunEnd(s, i, cs) ==
    LET ends == {j \in (i - 1)..Len(s) : \A k \in i..j : s[k] \in cs}
    IN  CHOOSE j \in ends : \A k \in ends : k <= j

\* the same for the characters not in cs
RunEndNot(s, i, cs) ==
    LET ends == {j \in (i - 1)..Len(s) : \A k \in i..j : s[k] \notin cs}
    IN  CHOOSE j \in ends : \A k \in ends : k <= j

AllDigits(s, i, j) == j <= Len(s) /\ \A k \in i..j : s[k] \in Digits

CharAt(s, i, cs) == i <= Len(s) /\ s[i] \in cs

\* \d{4}-\d{2}-\d{2} at i
DateAt(s, i) ==
    /\ AllDigits(s, i, i + 3) /\ CharAt(s, i + 4, {"-"})
    /\ AllDigits(s, i + 5, i + 6) /\ CharAt(s, i + 7, {"-"})
    /\ AllDigits(s, i + 8, i + 9)

\* \d{4}-\d{2}-\d{2}[\sT]\d{2}:\d{2}:\d{2} at i (19 characters)
TimestampAt(s, i) ==
    /\ DateAt(s, i)
    /\ CharAt(s, i + 10, Whitespace \cup {"T"})
    /\ AllDigits(s, i + 11, i + 12) /\ CharAt(s, i + 13, {":"})
    /\ AllDigits(s, i + 14, i + 15) /\ CharAt(s, i + 16, {":"})
    /\ AllDigits(s, i + 17, i + 18)

\* re.sub(r'\d{4}-\d{2}-\d{2}[\sT]\d{2}:\d{2}:\d{2}', repl, s), from index i:
\* the text up to the leftmost match, the replacement, and the rest likewise
RECURSIVE SubTimestamps(_, _, _)
SubTimestamps(s, i, repl) ==
    LET starts == {j \in i..Len(s) : TimestampAt(s, j)}
    IN  IF starts = {} THEN SubSeq(s, i, Len(s))
        ELSE LET j == CHOOSE j \in starts : \A k \in starts : j <= k
             IN  SubSeq(s, i, j - 1) \o repl \o SubTimestamps(s, j + 19, repl)

(***************************************************************************)
(* Error Signature Extractor (app/analytics/error_analyzer.py)             *)
(***************************************************************************)
\* str.splitlines(), for text whose only line separator is "\n"
RECURSIVE SplitLines(_)
SplitLines(s) ==
    IF s = EmptyStr THEN <<>>
    ELSE LET breaks == {i \in 1..Len(s) : s[i] = "\n"}
         IN  IF breaks = {} THEN <<s>>
             ELSE LET b == CHOOSE i \in breaks : \A j \in breaks : i <= j
                  IN  <<SubSeq(s, 1, b - 1)>> \o SplitLines(SubSeq(s, b + 1, Len(s)))

\* "\n".join(lines)
RECURSIVE JoinLines(_)
JoinLines(lines) ==
    IF lines = <<>> THEN EmptyStr
    ELSE IF Len(lines) = 1 THEN lines[1]
    ELSE lines[1] \o <<"\n">> \o JoinLines(Tail(lines))

ErrorKeywords ==
    { <<"e", "r", "r", "o", "r">>, <<"e", "x", "c", "e", "p", "t", "i", "o", "n">>, <<"t", "r", "a", "c", "e", "b", "a", "c", "k">>, <<"f", "a", "i", "l", "e", "d">>, <<"f", "a", "t", "a", "l">> }

\* any(k in l.lower() for k in [...])
HasErrorKeyword(line) == \E k \in ErrorKeywords : Contains(Lower(line), k)

\* [l.strip() for l in lines if any(k in l.lower() for k in [...])]
RECURSIVE InterestingLines(_)
InterestingLines(lines) ==
    IF lines = <<>> THEN <<>>
    ELSE IF HasErrorKeyword(Head(lines))
         THEN <<Strip(Head(lines))>> \o InterestingLines(Tail(lines))
         ELSE InterestingLines(Tail(lines))

\* re.sub(r'\[\d{4}-\d{2}-\d{2}.*?\]', '', s), from index i
RECURSIVE SubBracketedDates(_, _)
SubBracketedDates(s, i) ==
    LET starts == {j \in i..Len(s) : /\ s[j] = "[" /\ DateAt(s, j + 1)
                                     /\ \E c \in (j + 11)..Len(s) : s[c] = "]"}
    IN  IF starts = {} THEN SubSeq(s, i, Len(s))
        ELSE LET j == CHOOSE j \in starts : \A k \in starts : j <= k
                 closers == {c \in (j + 11)..Len(s) : s[c] = "]"}
                 close == CHOOSE c \in closers : \A k \in closers : c <= k
             IN  SubSeq(s, i, j - 1) \o SubBracketedDates(s, close + 1)

NormalizeSignatureLine(line) ==
    Lower(Strip(SubBracketedDates(SubTimestamps(line, 1, EmptyStr), 1)))

SignatureTailLen == 10

\* hashlib.sha1(text).hexdigest(): a digest is never the empty string, and
\* distinct texts have distinct digests
Sha1Hex(text) == <<"sha1:">> \o text

\* the normalized lines that are not empty
RECURSIVE NormalizedLines(_)
NormalizedLines(lines) ==
    IF lines = <<>> THEN <<>>
    ELSE LET line == NormalizeSignatureLine(Head(lines))
         IN  IF line # EmptyStr THEN <<line>> \o NormalizedLines(Tail(lines))
             ELSE NormalizedLines(Tail(lines))

\* the signature text of a log that is not empty
SignatureText(log_text) ==
    LET interesting == InterestingLines(SplitLines(log_text))
        tail == IF Len(interesting) > SignatureTailLen
                THEN Suffix(interesting, SignatureTailLen) ELSE interesting
    IN  JoinLines(NormalizedLines(tail))

\* extract_error_signature: (signature_text, signature_hash)
ExtractErrorSignature(log_text) ==
    IF log_text = EmptyStr THEN <<EmptyStr, EmptyStr>>
    ELSE LET signature_text == SignatureText(log_text)
         IN  <<signature_text, Sha1Hex(signature_text)>>

\* a log with more keyword lines than the signature keeps
LongLog ==
    JoinLines(<<<<"f", "a", "t", "a", "l", ":", " ", "f", "i", "r", "s", "t">>>> \o [i \in 1..SignatureTailLen |-> <<"s", "t", "e", "p", " ", "f", "a", "i", "l", "e", "d">>])

\* The step logs of the model.
Logs ==
    { EmptyStr, <<"o", "k">>, <<"d", "o", "n", "e", "\n", "o", "k", "\n">>, <<"E", "R", "R", "O", "R", " ", "b", "o", "o", "m">>,
      <<"2", "0", "2", "4", "-", "0", "1", "-", "0", "1", " ", "1", "0", ":", "0", "0", ":", "0", "0", " ", "E", "R", "R", "O", "R", " ", "b", "o", "o", "m", "\n", "o", "k">>,
      <<"[", "2", "0", "2", "4", "-", "0", "1", "-", "0", "1", " ", "m", "a", "i", "n", "]", " ", "E", "r", "r", "o", "r", " ", "b", "o", "o", "m", " ", "\n", " ">>,
      <<"b", "u", "i", "l", "d", " ", "f", "a", "i", "l", "e", "d", " ", "a", "t", " ", "/", "s", "r", "c", "/", "a", ".", "p", "y", ":", "1", "2", "\n", "E", "R", "R", "O", "R", " ", "b", "o", "o", "m">>,
      LongLog }

MaxFailedSteps == 2

\* a failed step of the latest run: its log, and whether fetching it raises
FailedSteps == [log : Logs, fetch : {"ok", "raises"}]

\* the result variable before the call
NotReturned == [returned |-> FALSE, steps |-> <<>>]

\* an entry whose signature is computed also for the empty log
FailedStepEntryUnguarded(step) ==
    LET log_text == IF step.fetch = "ok" THEN step.log ELSE EmptyStr
        signature_text == SignatureText(log_text)
    IN  [log_text |-> log_text,
         error_signature |-> signature_text,
         signature_hash |-> Sha1Hex(signature_text)]

\* one entry of get_failed_step_logs: the log fetched (empty when the fetch
\* raises) and its signature
FailedStepEntry(step) ==
    LET log_text == IF step.fetch = "ok" THEN step.log ELSE EmptyStr
        signature == ExtractErrorSignature(log_text)
    IN  [log_text |-> log_text,
         error_signature |-> signature[1],
         signature_hash |-> signature[2]]

\* a call of ErrorAnalyzer.get_failed_step_logs on the latest failed run
GetFailedStepLogs ==
    /\ ~failed_steps_data.returned
    /\ failed_steps_data' = [returned |-> TRUE,
                             steps |-> [i \in 1..Len(step_logs) |-> FailedStepEntry(step_logs[i])]]
    /\ UNCHANGED <<step_logs, diagVars, patternVars, storeVars, detectorVars, wasteVars, windowVars, collectorVars, enrichVars, latestVars, overlapVars>>

(***************************************************************************)
(* Claims about the Error Signature Extractor                              *)
(***************************************************************************)
NoKeywordLine(log_text) ==
    \A i \in 1..Len(SplitLines(log_text)) : ~HasErrorKeyword(SplitLines(log_text)[i])

\* C3 (as claimed): for every log text, empty or not, with no line that
\* contains an error keyword, the extractor returns ("", ""): the signature
\* text and the signature hash are both the empty string.
C3_NoKeywordGivesEmptyPair ==
    \A i \in 1..Len(failed_steps_data.steps) :
        NoKeywordLine(failed_steps_data.steps[i].log_text) =>
            /\ failed_steps_data.steps[i].error_signature = EmptyStr
            /\ failed_steps_data.steps[i].signature_hash = EmptyStr

(***************************************************************************)
(* Pattern Matcher (app/analytics/pattern_matcher.py)                      *)
(***************************************************************************)
\* re.sub(r'/[^\s]+', '[PATH]', s), from index i
RECURSIVE SubPaths(_, _)
SubPaths(s, i) ==
    LET starts == {j \in i..Len(s) : s[j] = "/" /\ RunEndNot(s, j + 1, Whitespace) > j}
    IN  IF starts = {} THEN SubSeq(s, i, Len(s))
        ELSE LET j == CHOOSE j \in starts : \A k \in starts : j <= k
             IN  SubSeq(s, i, j - 1) \o <<"[", "P", "A", "T", "H", "]">>
                 \o SubPaths(s, RunEndNot(s, j + 1, Whitespace) + 1)

\* re.sub(r'\d+:\d+', '[LINE]', s), from index i
RECURSIVE SubLineNumbers(_, _)
SubLineNumbers(s, i) ==
    LET starts == {j \in i..Len(s) :
                      /\ s[j] \in Digits
                      /\ CharAt(s, RunEnd(s, j, Digits) + 1, {":"})
                      /\ CharAt(s, RunEnd(s, j, Digits) + 2, Digits)}
    IN  IF starts = {} THEN SubSeq(s, i, Len(s))
        ELSE LET j == CHOOSE j \in starts : \A k \in starts : j <= k
             IN  SubSeq(s, i, j - 1) \o <<"[", "L", "I", "N", "E", "]">>
                 \o SubLineNumbers(s, RunEnd(s, RunEnd(s, j, Digits) + 2, Digits) + 1)

\* re.sub(r'0x[0-9a-f]+', '[HEX]', s), from index i
RECURSIVE SubHex(_, _)
SubHex(s, i) ==
    LET starts == {j \in i..Len(s) : /\ s[j] = "0" /\ CharAt(s, j + 1, {"x"})
                                     /\ CharAt(s, j + 2, HexDigits)}
    IN  IF starts = {} THEN SubSeq(s, i, Len(s))
        ELSE LET j == CHOOSE j \in starts : \A k \in starts : j <= k
             IN  SubSeq(s, i, j - 1) \o <<"[", "H", "E", "X", "]">>
                 \o SubHex(s, RunEnd(s, j + 2, HexDigits) + 1)

\* the text the canonical substrings are searched in
NormalizedText(msg) ==
    SubHex(SubTimestamps(SubLineNumbers(SubPaths(Lower(msg), 1), 1), 1, <<"[", "T", "I", "M", "E", "S", "T", "A", "M", "P", "]">>), 1)

\* the list with 'not found' tried before 'permission denied'
ErrorPatternsSwapped ==
    << <<"t", "i", "m", "e", "o", "u", "t">>, <<"o", "u", "t", " ", "o", "f", " ", "m", "e", "m", "o", "r", "y">>, <<"c", "o", "n", "n", "e", "c", "t", "i", "o", "n", " ", "r", "e", "f", "u", "s", "e", "d">>, <<"n", "o", "t", " ", "f", "o", "u", "n", "d">>,
       <<"p", "e", "r", "m", "i", "s", "s", "i", "o", "n", " ", "d", "e", "n", "i", "e", "d">>, <<"f", "a", "i", "l", "e", "d", " ", "t", "o">>, <<"e", "r", "r", "o", "r", ":">>, <<"e", "x", "c", "e", "p", "t", "i", "o", "n", ":">> >>

\* error_patterns, in the order they are tried
ErrorPatterns ==
    << <<"t", "i", "m", "e", "o", "u", "t">>, <<"o", "u", "t", " ", "o", "f", " ", "m", "e", "m", "o", "r", "y">>, <<"c", "o", "n", "n", "e", "c", "t", "i", "o", "n", " ", "r", "e", "f", "u", "s", "e", "d">>, <<"p", "e", "r", "m", "i", "s", "s", "i", "o", "n", " ", "d", "e", "n", "i", "e", "d">>,
       <<"n", "o", "t", " ", "f", "o", "u", "n", "d">>, <<"f", "a", "i", "l", "e", "d", " ", "t", "o">>, <<"e", "r", "r", "o", "r", ":">>, <<"e", "x", "c", "e", "p", "t", "i", "o", "n", ":">> >>

PatternPrefixLen == 100

\* for pattern in error_patterns: if re.search(pattern, normalized): return pattern
RECURSIVE FirstPattern(_, _)
FirstPattern(normalized, k) ==
    IF k > Len(ErrorPatterns) THEN Prefix(normalized, PatternPrefixLen)
    ELSE IF Contains(normalized, ErrorPatterns[k]) THEN ErrorPatterns[k]
    ELSE FirstPattern(normalized, k + 1)

NormalizeErrorMessage(msg) ==
    IF msg = EmptyStr THEN EmptyStr
    ELSE FirstPattern(NormalizedText(msg), 1)

\* The messages given to the matcher: up to MaxFragments fragments in a row.
MaxFragments == 2

Filler == [i \in 1..60 |-> "z"]

MessageFragments ==
    { <<"t", "i", "m", "e", "o", "u", "t">>, <<"P", "e", "r", "m", "i", "s", "s", "i", "o", "n", " ", "D", "e", "n", "i", "e", "d">>, <<"n", "o", "t", " ", "f", "o", "u", "n", "d">>, <<"f", "a", "i", "l", "e", "d", " ", "t", "o">>, <<"e", "r", "r", "o", "r", ":">>,
      <<"e", "x", "c", "e", "p", "t", "i", "o", "n", ":">>, <<"o", "u", "t", " ", "o", "f", " ", "m", "e", "m", "o", "r", "y">>, <<"c", "o", "n", "n", "e", "c", "t", "i", "o", "n", " ", "r", "e", "f", "u", "s", "e", "d">>,
      <<" ">>, <<"/">>, <<"1", "2", ":", "3">>, <<"0", "x", "1", "f">>, <<"x">>, Filler }

RECURSIVE Concatenations(_)
Concatenations(n) ==
    IF n = 0 THEN {EmptyStr}
    ELSE LET shorter == Concatenations(n - 1)
         IN  shorter \cup {m \o f : m \in shorter, f \in MessageFragments}

Messages == Concatenations(MaxFragments)

\* a call of PatternMatcher.normalize_error_message
CallNormalizeErrorMessage ==
    /\ pattern = None
    /\ pattern' = NormalizeErrorMessage(error_msg)
    /\ UNCHANGED <<error_msg, diagVars, analyzerVars, storeVars, detectorVars, wasteVars, windowVars, collectorVars, enrichVars, latestVars, overlapVars>>

(***************************************************************************)
(* Claims about the Pattern Matcher                                        *)
(***************************************************************************)
ClaimedPriority ==
    << <<"t", "i", "m", "e", "o", "u", "t">>, <<"o", "u", "t", " ", "o", "f", " ", "m", "e", "m", "o", "r", "y">>, <<"c", "o", "n", "n", "e", "c", "t", "i", "o", "n", " ", "r", "e", "f", "u", "s", "e", "d">>, <<"p", "e", "r", "m", "i", "s", "s", "i", "o", "n", " ", "d", "e", "n", "i", "e", "d">>,
       <<"n", "o", "t", " ", "f", "o", "u", "n", "d">>, <<"f", "a", "i", "l", "e", "d", " ", "t", "o">>, <<"e", "r", "r", "o", "r", ":">>, <<"e", "x", "c", "e", "p", "t", "i", "o", "n", ":">> >>

CanonicalHits(text) ==
    {k \in 1..Len(ClaimedPriority) : Contains(text, ClaimedPriority[k])}

\* C6: the pattern returned is the canonical substring of the normalized
\* text that comes first in the priority list (timeout, out of memory,
\* connection refused, permission denied, not found, failed to, error:,
\* exception:); with none, the first 100 characters of the normalized text;
\* the empty message gives the empty pattern.
C6_FirstMatchWins ==
    pattern # None =>
        LET text == NormalizedText(error_msg)
            hits == CanonicalHits(text)
        IN  /\ hits # {} /\ error_msg # EmptyStr =>
                 pattern = ClaimedPriority[CHOOSE k \in hits : \A h \in hits : k <= h]
            /\ hits = {} =>
                 /\ Len(pattern) = Min(100, Len(text))
                 /\ \A i \in 1..Len(pattern) : pattern[i] = text[i]
            /\ error_msg = EmptyStr => pattern = EmptyStr
            /\ ( /\ Contains(text, <<"t", "i", "m", "e", "o", "u", "t">>)
                 /\ Contains(text, <<"p", "e", "r", "m", "i", "s", "s", "i", "o", "n", " ", "d", "e", "n", "i", "e", "d">>) ) => pattern = <<"t", "i", "m", "e", "o", "u", "t">>

\* 'permission denied' and 'not found' both occur and the earlier one is returned
C6_Witness ==
    /\ pattern = <<"p", "e", "r", "m", "i", "s", "s", "i", "o", "n", " ", "d", "e", "n", "i", "e", "d">>
    /\ Contains(NormalizedText(error_msg), <<"n", "o", "t", " ", "f", "o", "u", "n", "d">>)
    /\ Contains(NormalizedText(error_msg), <<"p", "e", "r", "m", "i", "s", "s", "i", "o", "n", " ", "d", "e", "n", "i", "e", "d">>)

(***************************************************************************)
(* Failure ingestion (app/collector.py) and cross-repository search        *)
(* (app/analytics/error_analyzer.py)                                       *)
(***************************************************************************)
LogTailLen == 2000

ExcerptLines == 8

FallbackLines == 12

LogExcerptMax == 4000

ErrorMsgMax == 1000

\* [ln for ln in lines if ln.strip()]
RECURSIVE NonBlankLines(_)
NonBlankLines(lines) ==
    IF lines = <<>> THEN <<>>
    ELSE IF Strip(Head(lines)) # EmptyStr
         THEN <<Head(lines)>> \o NonBlankLines(Tail(lines))
         ELSE NonBlankLines(Tail(lines))

\* the excerpt collect_builds keeps of a step log: the last 8 keyword lines
\* of the last 2000 characters, else the last 12 lines that are not blank
CollectorLogExcerpt(raw_log) ==
    LET lines == NonBlankLines(SplitLines(Suffix(raw_log, LogTailLen)))
        interesting == Suffix(InterestingLines(lines), ExcerptLines)
    IN  IF JoinLines(interesting) # EmptyStr THEN JoinLines(interesting)
        ELSE JoinLines(Suffix(lines, FallbackLines))

\* signature_hash or pattern
HashOrPattern(signature_hash, coarse) ==
    IF signature_hash # EmptyStr THEN signature_hash ELSE coarse

\* The BuildFailure (with the excerpt stored on its step) that collect_builds
\* creates for a FAILED step: api_msg is the provider's error message, step
\* is the step's log and whether fetching it raises.
NewBuildFailure(repo, api_msg, step, at) ==
    LET \* if not error_msg and log_excerpt: error_msg = log_excerpt[:1000]
        ErrorMsg(log_excerpt) ==
            IF api_msg = EmptyStr /\ log_excerpt # EmptyStr
            THEN Prefix(log_excerpt, ErrorMsgMax) ELSE api_msg
        \* failure = BuildFailure(...); step.log_excerpt = log_excerpt[:4000]
        Failure(log_excerpt, message) ==
            [repository_id |-> repo,
             error_message |-> message,
             error_pattern |-> HashOrPattern(
                 ExtractErrorSignature(IF log_excerpt # EmptyStr
                                       THEN log_excerpt ELSE message)[2],
                 NormalizeErrorMessage(message)),
             log_excerpt |-> Prefix(log_excerpt, LogExcerptMax),
             occurred_at |-> at]
        \* the excerpt, taken once: empty when the fetch of the log raises
        excerpts == {IF step.fetch = "ok" THEN CollectorLogExcerpt(step.log) ELSE EmptyStr}
    IN  CHOOSE failure \in {Failure(log_excerpt, ErrorMsg(log_excerpt)) :
                               log_excerpt \in excerpts} : TRUE

FindLimit == 10

\* the ids of the failures, most recent first
RECURSIVE MostRecentFirst(_)
MostRecentFirst(ids) ==
    IF ids = {} THEN <<>>
    ELSE LET newest == CHOOSE i \in ids :
                          \A j \in ids : failures[j].occurred_at <= failures[i].occurred_at
         IN  <<newest>> \o MostRecentFirst(ids \ {newest})

\* for failure in failures: if repo.slug not in repos_seen: ...
RECURSIVE FirstPerRepository(_, _)
FirstPerRepository(ids, seen) ==
    IF ids = <<>> THEN <<>>
    ELSE IF failures[Head(ids)].repository_id \in seen
         THEN FirstPerRepository(Tail(ids), seen)
         ELSE <<Head(ids)>> \o
              FirstPerRepository(Tail(ids), seen \cup {failures[Head(ids)].repository_id})

\* find_other_repos_with_error: the ids of the failures reported, one for
\* each other repository
FindOtherReposWithError(current_repo_id, signature_hash) ==
    IF signature_hash = EmptyStr THEN <<>>
    ELSE FirstPerRepository(Prefix(MostRecentFirst(
            {i \in 1..Len(failures) : /\ failures[i].repository_id # current_repo_id
                                      /\ failures[i].error_pattern = signature_hash}),
            FindLimit), {})

MaxFailures == 2

\* the provider's error message of a failed step
ApiMessages == { EmptyStr, <<"b", "o", "o", "m">>, <<"T", "i", "m", "e", "o", "u", "t", ":", " ", "t", "e", "s", "t", " ", "f", "a", "i", "l", "e", "d">> }

IngestLogs ==
    { <<"o", "k">>, <<"d", "o", "n", "e", "\n", "o", "k", "\n">>, <<"E", "R", "R", "O", "R", " ", "b", "o", "o", "m">>, <<"2", "0", "2", "4", "-", "0", "1", "-", "0", "1", " ", "1", "0", ":", "0", "0", ":", "0", "0", " ", "E", "R", "R", "O", "R", " ", "b", "o", "o", "m", "\n", "o", "k">>, LongLog }

IngestSteps == [log : IngestLogs, fetch : {"ok", "raises"}]

NotAsked == [returned |-> FALSE, current |-> NoRepo, hash |-> EmptyStr, found |-> <<>>]

\* collect_builds for a repository whose provider lists one new run with one
\* FAILED step
CollectBuilds ==
    /\ Len(failures) < MaxFailures
    /\ \E repo \in Repos, api_msg \in ApiMessages, step \in IngestSteps :
          failures' = Append(failures, NewBuildFailure(repo, api_msg, step, Len(failures) + 1))
    /\ other_repos' = NotAsked
    /\ UNCHANGED <<diagVars, patternVars, analyzerVars, detectorVars, wasteVars, windowVars, collectorVars, enrichVars, latestVars, overlapVars>>

\* a call of find_other_repos_with_error for a repository and a hash
CallFindOtherRepos ==
    /\ \E repo \in Repos, f \in 1..Len(failures) :
          other_repos' = [returned |-> TRUE, current |-> repo,
                          hash |-> failures[f].error_pattern,
                          found |-> FindOtherReposWithError(repo, failures[f].error_pattern)]
    /\ UNCHANGED <<failures, diagVars, patternVars, analyzerVars, detectorVars, wasteVars, windowVars, collectorVars, enrichVars, latestVars, overlapVars>>

(***************************************************************************)
(* Claims about ingestion and cross-repository matching                    *)
(***************************************************************************)
\* the text the signature of a stored failure was extracted from
SignatureInput(f) == IF f.log_excerpt # EmptyStr THEN f.log_excerpt ELSE f.error_message

SignatureTextOf(f) == ExtractErrorSignature(SignatureInput(f))[1]

\* the repositories a find_other_repos_with_error result names
FoundRepos == {failures[other_repos.found[i]].repository_id : i \in 1..Len(other_repos.found)}

\* C4 (as claimed): two failures of different repositories whose logs reduce
\* to the same signature text (not empty) have the same error_pattern, and a search from
\* the repository of either returns the repository of the other; a failure
\* of another repository with different content, in particular a different
\* log where neither log has a keyword line, is never returned as a match.
C4_CrossRepoMatching ==
    /\ \A i, j \in 1..Len(failures) :
          ( /\ failures[i].repository_id # failures[j].repository_id
            /\ SignatureTextOf(failures[i]) # EmptyStr
            /\ SignatureTextOf(failures[i]) = SignatureTextOf(failures[j]) )
          => /\ failures[i].error_pattern = failures[j].error_pattern
             /\ ( /\ other_repos.returned
                  /\ other_repos.current = failures[i].repository_id
                  /\ other_repos.hash = failures[i].error_pattern )
                => failures[j].repository_id \in FoundRepos
    /\ other_repos.returned =>
          \A k \in 1..Len(other_repos.found) :
              \A i \in 1..Len(failures) :
                  LET mine == failures[i]
                      theirs == failures[other_repos.found[k]]
                  IN  ( /\ mine.repository_id = other_repos.current
                        /\ mine.error_pattern = other_repos.hash )
                      => ~( /\ SignatureInput(mine) # SignatureInput(theirs)
                            /\ NoKeywordLine(SignatureInput(mine))
                            /\ NoKeywordLine(SignatureInput(theirs)) )

\* C5 (as claimed): the error_pattern of a stored failure is the signature
\* hash when the extractor yields a signature text that is not empty, and the
\* Pattern Matcher's pattern of the error message when the signature text is
\* empty.
C5_PatternFallback ==
    \A i \in 1..Len(failures) :
        LET f == failures[i]
        IN  IF SignatureTextOf(f) # EmptyStr
            THEN f.error_pattern = Sha1Hex(SignatureTextOf(f))
            ELSE f.error_pattern = NormalizeErrorMessage(f.error_message)

(***************************************************************************)
(* Regression Detector (app/analytics/regression_detector.py)              *)
(* Durations are whole seconds; a median is kept as twice its value and a   *)
(* percentage as a fraction, so that no rounding enters the model.          *)
(***************************************************************************)
\* duration_seconds IS NULL
NoDuration == -1

BaselineLimit == 50

RecentLimit == 50

FallbackLimit == 40

MinSamples == 5

MinFallbackSamples == 10

\* xs in ascending order
RECURSIVE Sorted(_)
Sorted(xs) ==
    IF xs = <<>> THEN <<>>
    ELSE LET k == CHOOSE i \in 1..Len(xs) : \A j \in 1..Len(xs) : xs[i] <= xs[j]
         IN  <<xs[k]>> \o Sorted([i \in 1..(Len(xs) - 1) |-> IF i < k THEN xs[i] ELSE xs[i + 1]])

\* twice np.median(xs), xs not empty
Median2(xs) ==
    LET s == Sorted(xs)
        n == Len(s)
    IN  IF n % 2 = 1 THEN 2 * s[(n + 1) \div 2] ELSE s[n \div 2] + s[n \div 2 + 1]

\* the ids of the builds in ids, by completed_on descending
RECURSIVE ByCompletedDesc(_)
ByCompletedDesc(ids) ==
    IF ids = {} THEN <<>>
    ELSE LET latest == CHOOSE i \in ids :
                          \A j \in ids : builds[j].completed_on <= builds[i].completed_on
         IN  <<latest>> \o ByCompletedDesc(ids \ {latest})

\* Build.state == "SUCCESSFUL", Build.duration_seconds.isnot(None)
SuccessfulWithDuration ==
    {i \in 1..Len(builds) : builds[i].state = "SUCCESSFUL" /\ builds[i].duration_seconds # NoDuration}

BaselineBuilds ==
    Prefix(ByCompletedDesc({i \in SuccessfulWithDuration : builds[i].completed_on < cutoff_date}),
           BaselineLimit)

RecentBuilds ==
    Prefix(ByCompletedDesc({i \in SuccessfulWithDuration : builds[i].completed_on >= cutoff_date}),
           RecentLimit)

WindowBuilds == Prefix(ByCompletedDesc(SuccessfulWithDuration), FallbackLimit)

BuildDurations(ids) == [k \in 1..Len(ids) |-> builds[ids[k]].duration_seconds]

NoFinding ==
    [returned |-> TRUE, found |-> FALSE, baseline_median2 |-> 0, recent_median2 |-> 0,
     percent_num |-> 0, percent_den |-> 1, commit_hash |-> 0,
     baseline_count |-> 0, recent_count |-> 0, note |-> None]

NotDetected == [NoFinding EXCEPT !.returned = FALSE]

\* a threshold that is reached, not exceeded
ExceedsThresholdOrEqual(recent2, baseline2) == 10 * recent2 >= 12 * baseline2

\* recent_median > baseline_median * 1.2, on twice the medians
ExceedsThreshold(recent2, baseline2) == 10 * recent2 > 12 * baseline2

\* the comparison of the two medians and the finding built from it;
\* commit is the commit of recent[0]
CompareMedians(baseline, recent, commit) ==
    LET baseline2 == Median2(baseline)
        recent2 == Median2(recent)
    IN  IF ExceedsThreshold(recent2, baseline2)
        THEN [returned |-> TRUE, found |-> TRUE,
              baseline_median2 |-> baseline2, recent_median2 |-> recent2,
              percent_num |-> (recent2 - baseline2) * 100, percent_den |-> baseline2,
              commit_hash |-> commit,
              baseline_count |-> Len(baseline), recent_count |-> Len(recent),
              note |-> None]
        ELSE NoFinding

\* the finding with the note the build detector puts into every dict it returns
WithInternalSplitNote(finding) ==
    IF finding.found
    THEN [finding EXCEPT !.note = <<"Computed using an internal split of recent history due to limited baseline history.">>]
    ELSE finding

DetectBuildDurationRegression ==
    IF Len(BaselineBuilds) < MinSamples \/ Len(RecentBuilds) < MinSamples
    THEN IF Len(WindowBuilds) < MinFallbackSamples THEN NoFinding
         ELSE LET midpoint == Len(WindowBuilds) \div 2
                  recent == SubSeq(WindowBuilds, 1, midpoint)
                  baseline == SubSeq(WindowBuilds, midpoint + 1, Len(WindowBuilds))
              IN  WithInternalSplitNote(
                      CompareMedians(BuildDurations(baseline), BuildDurations(recent),
                                     builds[recent[1]].commit_hash))
    ELSE WithInternalSplitNote(
             CompareMedians(BuildDurations(BaselineBuilds), BuildDurations(RecentBuilds),
                            builds[RecentBuilds[1]].commit_hash))

\* BuildStep joined with Build: the step of that name in a SUCCESSFUL build,
\* with a duration
StepsWithDuration ==
    {i \in 1..Len(builds) : builds[i].state = "SUCCESSFUL" /\ builds[i].step_duration # NoDuration}

BaselineSteps ==
    Prefix(ByCompletedDesc({i \in StepsWithDuration : builds[i].completed_on < cutoff_date}),
           BaselineLimit)

RecentSteps ==
    Prefix(ByCompletedDesc({i \in StepsWithDuration : builds[i].completed_on >= cutoff_date}),
           RecentLimit)

StepDurations(ids) == [k \in 1..Len(ids) |-> builds[ids[k]].step_duration]

\* the step detector with the midpoint fallback of the build detector
DetectStepRegressionWithFallback ==
    IF Len(BaselineSteps) < MinSamples \/ Len(RecentSteps) < MinSamples
    THEN LET window == Prefix(ByCompletedDesc(StepsWithDuration), FallbackLimit)
             midpoint == Len(window) \div 2
             recent == SubSeq(window, 1, midpoint)
             baseline == SubSeq(window, midpoint + 1, Len(window))
         IN  IF Len(window) < MinFallbackSamples THEN NoFinding
             ELSE CompareMedians(StepDurations(baseline), StepDurations(recent),
                                 builds[recent[1]].commit_hash)
    ELSE CompareMedians(StepDurations(BaselineSteps), StepDurations(RecentSteps),
                        builds[RecentSteps[1]].commit_hash)

DetectStepRegression ==
    IF Len(BaselineSteps) < MinSamples \/ Len(RecentSteps) < MinSamples THEN NoFinding
    ELSE CompareMedians(StepDurations(BaselineSteps), StepDurations(RecentSteps),
                        builds[RecentSteps[1]].commit_hash)

MinRegressedRepos == 2

\* a finding from any repository that regressed
AggregatesAny(regressed_repos) == Len(regressed_repos) >= 1

\* len(regressed_repos) >= 2
AggregatesEnough(regressed_repos) == Len(regressed_repos) >= MinRegressedRepos

\* the steps of the name in the SUCCESSFUL builds of the repository, with a
\* duration, completed before the cutoff or not, most recent first
RepoSteps(repo, step_name, recent) ==
    Prefix(ByCompletedDesc({i \in 1..Len(builds) :
                               /\ builds[i].repository_id = repo
                               /\ builds[i].step_name = step_name
                               /\ builds[i].state = "SUCCESSFUL"
                               /\ (builds[i].completed_on >= cutoff_date) = recent
                               /\ builds[i].step_duration # NoDuration}),
           IF recent THEN RecentLimit ELSE BaselineLimit)

\* detect_cross_repo_step_regression(step_name): the repositories in id
\* order, the percentage of each as a fraction, and the mean of the
\* percentages as a fraction over the product of their denominators
DetectCrossRepoStepRegression(step_name) ==
    LET RECURSIVE RegressedFrom(_)
        RegressedFrom(repo) ==
            IF repo > NumRepos THEN <<>>
            ELSE LET baseline_steps == RepoSteps(repo, step_name, FALSE)
                     recent_steps == RepoSteps(repo, step_name, TRUE)
                     baseline2 == Median2(StepDurations(baseline_steps))
                     recent2 == Median2(StepDurations(recent_steps))
                 IN  (IF /\ Len(baseline_steps) >= MinSamples
                         /\ Len(recent_steps) >= MinSamples
                         /\ ExceedsThreshold(recent2, baseline2)
                      THEN <<[repository_id |-> repo,
                              percent_num |-> (recent2 - baseline2) * 100,
                              percent_den |-> baseline2,
                              baseline_median2 |-> baseline2,
                              recent_median2 |-> recent2]>>
                      ELSE <<>>) \o RegressedFrom(repo + 1)
        regressed_repos == RegressedFrom(1)
        RECURSIVE Denominators(_)
        Denominators(k) ==
            IF k > Len(regressed_repos) THEN 1
            ELSE regressed_repos[k].percent_den * Denominators(k + 1)
        RECURSIVE Numerators(_)
        Numerators(k) ==
            IF k > Len(regressed_repos) THEN 0
            ELSE regressed_repos[k].percent_num
                    * (Denominators(1) \div regressed_repos[k].percent_den)
                 + Numerators(k + 1)
    IN  IF AggregatesEnough(regressed_repos)
        THEN [returned |-> TRUE, found |-> TRUE, step_name |-> step_name,
              regressed_repos |-> regressed_repos, repo_count |-> Len(regressed_repos),
              avg_num |-> Numerators(1),
              avg_den |-> Len(regressed_repos) * Denominators(1)]
        ELSE [returned |-> TRUE, found |-> FALSE, step_name |-> step_name,
              regressed_repos |-> <<>>, repo_count |-> 0, avg_num |-> 0, avg_den |-> 1]

\* a call of detect_cross_repo_step_regression for a step name
CallDetectCrossRepoStepRegression ==
    /\ ~cross_regression.returned
    /\ \E step_name \in {"build", "test"} :
          cross_regression' = DetectCrossRepoStepRegression(step_name)
    /\ UNCHANGED <<builds, cutoff_date, regression, step_regression, diagVars, patternVars,
                   analyzerVars, storeVars, wasteVars, windowVars, collectorVars, enrichVars, latestVars, overlapVars>>

\* The build histories of the model: three runs of like builds, oldest first.
MaxRun == 5

RunLengths == {0, 2, MaxRun}

\* a build and the duration of its step of the name asked for (NoDuration:
\* the build has no such step, or the step has no duration)
BuildKinds ==
    { [state |-> "SUCCESSFUL", duration_seconds |-> 100, step_duration |-> 40],
      [state |-> "SUCCESSFUL", duration_seconds |-> 110, step_duration |-> 50],
      [state |-> "SUCCESSFUL", duration_seconds |-> 120, step_duration |-> 48],
      [state |-> "SUCCESSFUL", duration_seconds |-> 125, step_duration |-> NoDuration],
      [state |-> "SUCCESSFUL", duration_seconds |-> NoDuration, step_duration |-> 60],
      [state |-> "FAILED", duration_seconds |-> 500, step_duration |-> 90] }

Run(kind, n) == [i \in 1..n |-> kind]

\* build i is the i-th to complete, of commit i
History(kinds) ==
    [i \in 1..Len(kinds) |->
        [state |-> kinds[i].state, duration_seconds |-> kinds[i].duration_seconds,
         step_duration |-> kinds[i].step_duration, completed_on |-> i, commit_hash |-> i]]

\* a call of detect_build_duration_regression for the repository
CallDetectBuildDurationRegression ==
    /\ ~regression.returned
    /\ regression' = DetectBuildDurationRegression
    /\ UNCHANGED <<builds, cutoff_date, step_regression, cross_regression, diagVars, patternVars, analyzerVars, storeVars,
                 wasteVars, windowVars, collectorVars, enrichVars, latestVars, overlapVars>>

\* a call of detect_step_regression for the repository and the step name
CallDetectStepRegression ==
    /\ ~step_regression.returned
    /\ step_regression' = DetectStepRegression
    /\ UNCHANGED <<builds, cutoff_date, regression, cross_regression, diagVars, patternVars, analyzerVars, storeVars,
                 wasteVars, windowVars, collectorVars, enrichVars, latestVars, overlapVars>>

(***************************************************************************)
(* Claims about the Regression Detector.  The sample sets and the medians   *)
(* are restated here from their meaning, not from the detector's queries.   *)
(***************************************************************************)
\* the n most recently completed builds of ids
MostRecent(ids, n) ==
    {i \in ids : Cardinality({j \in ids : builds[j].completed_on > builds[i].completed_on}) < n}

EligibleBuilds ==
    {i \in 1..Len(builds) : builds[i].state = "SUCCESSFUL" /\ builds[i].duration_seconds >= 0}

WindowedBaseline ==
    MostRecent({i \in EligibleBuilds : builds[i].completed_on < cutoff_date}, BaselineLimit)

WindowedRecent ==
    MostRecent({i \in EligibleBuilds : builds[i].completed_on >= cutoff_date}, RecentLimit)

WindowsSuffice == Cardinality(WindowedBaseline) >= 5 /\ Cardinality(WindowedRecent) >= 5

Pool == MostRecent(EligibleBuilds, FallbackLimit)

SamplesSuffice == WindowsSuffice \/ Cardinality(Pool) >= 10

RecentSet == IF WindowsSuffice THEN WindowedRecent ELSE MostRecent(Pool, Cardinality(Pool) \div 2)

BaselineSet == IF WindowsSuffice THEN WindowedBaseline ELSE Pool \ RecentSet

\* the k-th smallest duration of the builds ids
KthDuration(ids, k) ==
    LET i == CHOOSE i \in ids :
                /\ Cardinality({j \in ids : builds[j].duration_seconds < builds[i].duration_seconds}) < k
                /\ Cardinality({j \in ids : builds[j].duration_seconds <= builds[i].duration_seconds}) >= k
    IN  builds[i].duration_seconds

\* twice the median duration of the builds ids
TwiceMedian(ids) ==
    LET n == Cardinality(ids)
    IN  KthDuration(ids, (n + 1) \div 2) + KthDuration(ids, (n + 2) \div 2)

\* C7: detect_build_duration_regression returns a finding exactly when the
\* sample sets suffice and the recent median is strictly more than 1.2 times
\* the baseline median.  A baseline median of 100 s with a recent median of
\* 125 s is flagged with 25 percent; recent medians of 110 s and of exactly
\* 120 s are not flagged.  The percentage reported is (recent - baseline) /
\* baseline * 100 and the commit is that of the most recently completed build
\* of the recent set.
C7_BuildRegressionThreshold ==
    regression.returned =>
        /\ regression.found <=>
              (SamplesSuffice /\ 10 * TwiceMedian(RecentSet) > 12 * TwiceMedian(BaselineSet))
        /\ regression.found =>
              LET baseline2 == TwiceMedian(BaselineSet)
                  recent2 == TwiceMedian(RecentSet)
                  latest == CHOOSE i \in RecentSet :
                               \A j \in RecentSet : builds[j].completed_on <= builds[i].completed_on
              IN  /\ regression.percent_num * baseline2
                        = (recent2 - baseline2) * 100 * regression.percent_den
                  /\ regression.commit_hash = builds[latest].commit_hash
        /\ (SamplesSuffice /\ TwiceMedian(BaselineSet) = 200) =>
              /\ TwiceMedian(RecentSet) = 250 =>
                    /\ regression.found
                    /\ regression.percent_num = 25 * regression.percent_den
              /\ TwiceMedian(RecentSet) \in {220, 240} => ~regression.found

\* a regression of exactly 25 percent was found from the two windows, the
\* newest build of the history not being one of the recent set
C7_Witness ==
    /\ regression.returned /\ regression.found
    /\ WindowsSuffice
    /\ regression.baseline_median2 = 200 /\ regression.recent_median2 = 250
    /\ regression.commit_hash # Len(builds)

EligibleSteps ==
    {i \in 1..Len(builds) : builds[i].state = "SUCCESSFUL" /\ builds[i].step_duration >= 0}

StepBaseline == {i \in EligibleSteps : builds[i].completed_on < cutoff_date}

StepRecent == {i \in EligibleSteps : builds[i].completed_on >= cutoff_date}

\* C8: with too little data the detectors return no finding and raise nothing:
\* detect_build_duration_regression when a windowed set has fewer than 5
\* samples and fewer than 10 successful builds with a duration exist in all,
\* detect_step_regression when its baseline set or its recent set has fewer
\* than 5 samples, whatever the number of samples in all.
C8_InsufficientDataIsNoFinding ==
    /\ ( /\ regression.returned
         /\ ~WindowsSuffice
         /\ Cardinality(EligibleBuilds) < 10 )
       => regression = NoFinding
    /\ ( /\ step_regression.returned
         /\ Cardinality(StepBaseline) < 5 \/ Cardinality(StepRecent) < 5 )
       => step_regression = NoFinding

\* both detectors returned no finding for want of data: the builds number
\* between 5 and 9, and the steps 10 or more with the newer half slower by
\* more than a fifth, but too few of them on one side of the cutoff
C8_Witness ==
    /\ regression.returned /\ regression = NoFinding
    /\ ~WindowsSuffice
    /\ Cardinality(EligibleBuilds) \in 5..9
    /\ step_regression.returned /\ step_regression = NoFinding
    /\ Cardinality(StepBaseline) < 5 \/ Cardinality(StepRecent) < 5
    /\ Cardinality(EligibleSteps) >= 10
    /\ DetectStepRegressionWithFallback.found

(***************************************************************************)
(* Resource waste (RegressionDetector.detect_resource_waste).  A mean is    *)
(* kept as a sum and a count, a ratio as a fraction.                        *)
(***************************************************************************)
\* a resource column that IS NULL
NoValue == -1

MinGroupSize == 5

RECURSIVE SumOf(_, _)
SumOf(ids, field) ==
    IF ids = {} THEN 0
    ELSE LET i == CHOOSE i \in ids : TRUE
         IN  steps[i][field] + SumOf(ids \ {i}, field)

\* the steps of SUCCESSFUL builds with both columns known
StepsWith(usage, limit) ==
    {i \in 1..Len(steps) : /\ steps[i].state = "SUCCESSFUL"
                           /\ steps[i][usage] # NoValue
                           /\ steps[i][limit] # NoValue}

\* the keys of step_groups, in the order of their insertion
RECURSIVE GroupNames(_, _)
GroupNames(ids, seen) ==
    IF ids = {} THEN <<>>
    ELSE LET first == CHOOSE i \in ids : \A j \in ids : i <= j
             name == steps[first].step_name
         IN  IF name \in seen THEN GroupNames(ids \ {first}, seen)
             ELSE <<name>> \o GroupNames(ids \ {first}, seen \cup {name})

\* [s.<field> for s in step_list if s.<field>]
Truthy(step_list, field) == {i \in step_list : steps[i][field] # 0}

\* the findings of one kind of waste for the groups names, in order
RECURSIVE GroupFindings(_, _, _, _)
GroupFindings(type, names, usage, limit) ==
    IF names = <<>> THEN <<>>
    ELSE LET step_list == {i \in StepsWith(usage, limit) : steps[i].step_name = Head(names)}
             usages == Truthy(step_list, usage)
             limits == Truthy(step_list, limit)
             usage_sum == SumOf(usages, usage)
             limit_sum == SumOf(limits, limit)
             \* avg_limit > avg_usage * 2; the mean of no value is nan, which
             \* compares False
             wasteful == /\ usages # {} /\ limits # {}
                         /\ limit_sum * Cardinality(usages) > 2 * usage_sum * Cardinality(limits)
             positive == usage_sum > 0
             finding ==
                 [type |-> type, step_name |-> Head(names),
                  usage_sum |-> usage_sum, usage_count |-> Cardinality(usages),
                  limit_sum |-> limit_sum, limit_count |-> Cardinality(limits),
                  ratio_num |-> IF positive THEN limit_sum * Cardinality(usages) ELSE 0,
                  ratio_den |-> IF positive THEN usage_sum * Cardinality(limits) ELSE 1,
                  recommended |-> (3 * usage_sum) \div (2 * Cardinality(usages))]
         IN  (IF Cardinality(step_list) >= MinGroupSize /\ wasteful THEN <<finding>> ELSE <<>>)
             \o GroupFindings(type, Tail(names), usage, limit)

DetectResourceWaste ==
    GroupFindings("memory_waste",
                  GroupNames(StepsWith("peak_memory_mb", "memory_limit_mb"), {}),
                  "peak_memory_mb", "memory_limit_mb")
    \o GroupFindings("time_waste",
                     GroupNames(StepsWith("duration_seconds", "max_time_seconds"), {}),
                     "duration_seconds", "max_time_seconds")

\* The step tables of the model: three runs of like steps, in id order.
MaxStepRun == 4

StepRunLengths == {0, 1, MaxStepRun}

StepKind(name, state, peak, memory_limit, duration, max_time) ==
    [step_name |-> name, state |-> state,
     peak_memory_mb |-> peak, memory_limit_mb |-> memory_limit,
     duration_seconds |-> duration, max_time_seconds |-> max_time]

StepKinds ==
    { StepKind("test", "SUCCESSFUL", 400, 1000, 60, NoValue),
      StepKind("test", "SUCCESSFUL", 400, 700, 60, NoValue),
      StepKind("test", "SUCCESSFUL", 0, 700, 0, 100),
      StepKind("test", "SUCCESSFUL", 401, 1000, 60, 180),
      StepKind("test", "SUCCESSFUL", NoValue, 1000, 60, 100),
      StepKind("test", "SUCCESSFUL", 400, NoValue, NoValue, 180),
      StepKind("test", "FAILED", 400, 1000, 60, 180),
      StepKind("build", "SUCCESSFUL", 400, 1000, 60, 180) }

NotAnalyzed == [returned |-> FALSE, findings |-> <<>>]

\* a call of detect_resource_waste for the repository
CallDetectResourceWaste ==
    /\ ~waste_findings.returned
    /\ waste_findings' = [returned |-> TRUE, findings |-> DetectResourceWaste]
    /\ UNCHANGED <<steps, diagVars, patternVars, analyzerVars, storeVars, detectorVars, windowVars, collectorVars, enrichVars, latestVars, overlapVars>>

(***************************************************************************)
(* Claim about the memory waste findings                                    *)
(***************************************************************************)
\* the steps of the name with a known peak and a known limit
MemoryGroup(name) ==
    {i \in 1..Len(steps) : /\ steps[i].step_name = name
                           /\ steps[i].state = "SUCCESSFUL"
                           /\ steps[i].peak_memory_mb >= 0
                           /\ steps[i].memory_limit_mb >= 0}

MemoryFindings(name) ==
    {k \in 1..Len(waste_findings.findings) :
        /\ waste_findings.findings[k].type = "memory_waste"
        /\ waste_findings.findings[k].step_name = name}

\* C9 (as claimed): a group of at least 5 steps with known peak and limit has
\* a memory_waste finding exactly when the mean limit over all its steps is
\* more than twice the mean peak over all its steps, the limit recommended
\* being 1.5 times that mean peak (in whole MB); mean peak 400 with mean limit
\* 1000 is flagged with 600 and with mean limit 700 is not; a group of fewer
\* than 5 steps has no finding.  (A group whose peaks are all 0 is left aside.)
C9_MemoryWaste ==
    waste_findings.returned =>
        \A name \in {"test", "build"} :
            LET group == MemoryGroup(name)
                n == Cardinality(group)
                peaks == SumOf(group, "peak_memory_mb")
                limits == SumOf(group, "memory_limit_mb")
                found == MemoryFindings(name)
            IN  /\ n < 5 => found = {}
                /\ (n >= 5 /\ peaks > 0) =>
                      /\ found # {} <=> limits > 2 * peaks
                      /\ \A k \in found :
                            LET recommended == waste_findings.findings[k].recommended
                            IN  /\ 2 * n * recommended <= 3 * peaks
                                /\ 3 * peaks < 2 * n * (recommended + 1)
                      /\ (peaks = 400 * n /\ limits = 1000 * n) =>
                            \E k \in found : waste_findings.findings[k].recommended = 600
                      /\ (peaks = 400 * n /\ limits = 700 * n) => found = {}

(***************************************************************************)
(* The 28th-to-28th window                                                  *)
(* (MetricsCalculator.calculate_build_minutes_28_to_28)                     *)
(***************************************************************************)
FirstYear == 2024

NumYears == 2

DaysInMonth(year, month) ==
    IF month = 2 THEN (IF year % 4 = 0 THEN 29 ELSE 28)
    ELSE IF month \in {4, 6, 9, 11} THEN 30 ELSE 31

Dates ==
    {d \in [year : FirstYear..(FirstYear + NumYears - 1), month : 1..12, day : 1..31] :
        d.day <= DaysInMonth(d.year, d.month)}

BoundaryDay == 28

PrevMonth(year, month) ==
    IF month = 1 THEN [year |-> year - 1, month |-> 12]
    ELSE [year |-> year, month |-> month - 1]

\* the period end that is the 28th of the month of ref, whatever its day
PeriodEndOfMonth(ref) == [year |-> ref.year, month |-> ref.month, day |-> BoundaryDay]

\* the most recent 28th on or before ref
PeriodEnd(ref) ==
    LET end == IF ref.day < BoundaryDay THEN PrevMonth(ref.year, ref.month)
               ELSE [year |-> ref.year, month |-> ref.month]
    IN  [year |-> end.year, month |-> end.month, day |-> BoundaryDay]

\* the 28th of the month before the period end
PeriodStart(period_end) ==
    LET start == PrevMonth(period_end.year, period_end.month)
    IN  [year |-> start.year, month |-> start.month, day |-> BoundaryDay]

\* a bound that leaves the end day out: period_end itself
PeriodEndAtMidnight(period_end) == period_end

\* period_end + timedelta(days=1)
PeriodEndExcl(period_end) ==
    IF BoundaryDay < DaysInMonth(period_end.year, period_end.month)
    THEN [period_end EXCEPT !.day = BoundaryDay + 1]
    ELSE IF period_end.month = 12
         THEN [year |-> period_end.year + 1, month |-> 1, day |-> 1]
         ELSE [year |-> period_end.year, month |-> period_end.month + 1, day |-> 1]

NoDate == [year |-> 0, month |-> 0, day |-> 0]

\* the time of day is kept in ticks, TicksPerDay of them to a day
TicksPerDay == 2

\* a datetime: a date and the tick of the day
Moment(date, tick) ==
    [year |-> date.year, month |-> date.month, day |-> date.day, tick |-> tick]

\* datetime(year, month, day): the date at 00:00
Midnight(date) == Moment(date, 0)

\* a NULL completed_on
NoMoment == Moment(NoDate, 0)

\* a < b on datetimes
Earlier(a, b) ==
    \/ a.year < b.year
    \/ a.year = b.year /\ a.month < b.month
    \/ a.year = b.year /\ a.month = b.month /\ a.day < b.day
    \/ a.year = b.year /\ a.month = b.month /\ a.day = b.day /\ a.tick < b.tick

\* a NULL size_factor; the collector stores no 0
NullSizeFactor == 0

\* coalesce(size_factor, 1)
CoalesceSizeFactor(size_factor) ==
    IF size_factor = NullSizeFactor THEN 1 ELSE size_factor

\* the build_steps rows of b that the step query joins
MeasuredSteps(b) ==
    {i \in 1..Len(b.steps) : b.steps[i].duration_seconds # NoDuration}

RECURSIVE WeightedSeconds(_, _)
\* sum(duration_seconds * coalesce(size_factor, 1)) over the steps ids of b
WeightedSeconds(b, ids) ==
    IF ids = {} THEN 0
    ELSE LET i == CHOOSE j \in ids : TRUE
         IN  b.steps[i].duration_seconds * CoalesceSizeFactor(b.steps[i].size_factor)
                 + WeightedSeconds(b, ids \ {i})

\* Build.completed_on >= period_start and Build.completed_on < period_end_excl;
\* a comparison with NULL selects nothing
CompletedWithin(b, period_start, period_end_excl) ==
    /\ b.completed_on # NoMoment
    /\ ~Earlier(b.completed_on, Midnight(period_start))
    /\ Earlier(b.completed_on, Midnight(period_end_excl))

\* the builds the queries range over: those in the window, of the repository
\* asked for if one is given
SelectedBuilds(rows, selected, repository_id) ==
    {i \in selected : repository_id # NoRepo => rows[i].repository_id = repository_id}

RECURSIVE StepSeconds(_, _)
\* the weighted seconds of the builds ids
StepSeconds(rows, ids) ==
    IF ids = {} THEN 0
    ELSE LET i == CHOOSE j \in ids : TRUE
         IN  WeightedSeconds(rows[i], MeasuredSteps(rows[i])) + StepSeconds(rows, ids \ {i})

RECURSIVE PipelineSeconds(_, _)
\* sum(Build.duration_seconds) over the builds ids
PipelineSeconds(rows, ids) ==
    IF ids = {} THEN 0
    ELSE LET i == CHOOSE j \in ids : TRUE
         IN  rows[i].duration_seconds + PipelineSeconds(rows, ids \ {i})

\* the step query grouped by repository: a row for each repository with a
\* selected build that has a step with a duration
StepMap(rows, selected) ==
    LET joined(rid) == {i \in selected : rows[i].repository_id = rid
                                          /\ MeasuredSteps(rows[i]) # {}}
    IN  [rid \in {r \in Repos : joined(r) # {}} |-> StepSeconds(rows, joined(rid))]

\* the pipeline query grouped by repository
PipeMap(rows, selected) ==
    LET timed(rid) == {i \in selected : rows[i].repository_id = rid
                                         /\ rows[i].duration_seconds # NoDuration}
    IN  [rid \in {r \in Repos : timed(r) # {}} |-> PipelineSeconds(rows, timed(rid))]

\* _minutes_for_repo, in seconds: the weighted seconds if positive, else the
\* pipeline seconds
SecondsForRepo(step_map, pipe_map, rid) ==
    LET secs == IF rid \in DOMAIN step_map THEN step_map[rid] ELSE 0
    IN  IF secs <= 0
        THEN (IF rid \in DOMAIN pipe_map THEN pipe_map[rid] ELSE 0)
        ELSE secs

RECURSIVE SumValues(_, _)
\* sum(by_repo.values())
SumValues(by_repo, rids) ==
    IF rids = {} THEN 0
    ELSE LET r == CHOOSE x \in rids : TRUE
         IN  by_repo[r] + SumValues(by_repo, rids \ {r})

\* the by_repo dictionary, its values in seconds (a minute is 60 of them)
ByRepo(step_map, pipe_map) ==
    [rid \in (DOMAIN pipe_map) \cup (DOMAIN step_map) |->
        SecondsForRepo(step_map, pipe_map, rid)]

NotCalculated ==
    [returned |-> FALSE, repository_id |-> NoRepo, period_start |-> NoDate,
     period_end |-> NoDate, period_end_excl |-> NoDate, step_map |-> <<>>,
     pipe_map |-> <<>>, by_repo |-> <<>>, total_seconds |-> 0]

\* calculate_build_minutes_28_to_28(repository_id, reference_date)
CalculateBuildMinutes28To28(rows, repository_id, ref) ==
    LET period_end == PeriodEnd(ref)
        period_start == PeriodStart(period_end)
        period_end_excl == PeriodEndExcl(period_end)
        selected == SelectedBuilds(rows,
                        {i \in 1..Len(rows) :
                            CompletedWithin(rows[i], period_start, period_end_excl)},
                        repository_id)
        step_map == StepMap(rows, selected)
        pipe_map == PipeMap(rows, selected)
        by_repo == ByRepo(step_map, pipe_map)
    IN  [returned |-> TRUE, repository_id |-> repository_id,
         period_start |-> period_start, period_end |-> period_end,
         period_end_excl |-> period_end_excl, step_map |-> step_map,
         pipe_map |-> pipe_map, by_repo |-> by_repo,
         total_seconds |-> SumValues(by_repo, DOMAIN by_repo)]

\* a call of calculate_build_minutes_28_to_28 with the reference date, for
\* all repositories or for one
CallCalculateBuildMinutes28To28 ==
    /\ ~minutes28.returned
    /\ \E repository_id \in {NoRepo} \cup Repos :
          minutes28' = CalculateBuildMinutes28To28(build_store, repository_id, reference_date)
    /\ UNCHANGED <<reference_date, build_store, minutes, diagVars, patternVars,
                   analyzerVars, storeVars, detectorVars, wasteVars, collectorVars, enrichVars, latestVars, overlapVars>>

NotCalculatedRolling ==
    [returned |-> FALSE, repository_id |-> NoRepo, cutoff_date |-> NoMoment,
     step_map |-> <<>>, pipe_map |-> <<>>, by_repo |-> <<>>, total_seconds |-> 0]

\* calculate_build_minutes(repository_id, days), cutoff_date being now - days:
\* total_minutes of the repository asked for, or else the minutes of each
\* repository (both in seconds)
CalculateBuildMinutes(rows, repository_id, cutoff) ==
    LET selected == SelectedBuilds(rows,
                        {i \in 1..Len(rows) :
                            /\ rows[i].completed_on # NoMoment
                            /\ ~Earlier(rows[i].completed_on, cutoff)},
                        repository_id)
        step_map == StepMap(rows, selected)
        pipe_map == PipeMap(rows, selected)
    IN  [returned |-> TRUE, repository_id |-> repository_id, cutoff_date |-> cutoff,
         step_map |-> step_map, pipe_map |-> pipe_map,
         by_repo |-> IF repository_id # NoRepo THEN <<>> ELSE ByRepo(step_map, pipe_map),
         total_seconds |-> IF repository_id # NoRepo
                           THEN SecondsForRepo(step_map, pipe_map, repository_id)
                           ELSE 0]

\* a call of calculate_build_minutes, for all repositories or for one, on
\* the reference date with the days that reach back to the same day of the
\* month before
CallCalculateBuildMinutes ==
    /\ ~minutes.returned
    /\ \E repository_id \in {NoRepo} \cup Repos :
          minutes' = CalculateBuildMinutes(build_store, repository_id,
                                          Midnight([reference_date EXCEPT !.month = @ - 1]))
    /\ UNCHANGED <<reference_date, build_store, minutes28, diagVars, patternVars,
                   analyzerVars, storeVars, detectorVars, wasteVars, collectorVars, enrichVars, latestVars, overlapVars>>

\* a builds row with its build_steps rows
StoredBuild(repo, at, duration, build_steps) ==
    [repository_id |-> repo, completed_on |-> at, duration_seconds |-> duration,
     steps |-> build_steps]

\* the first and the last tick of the 27th, the 28th and the day after the
\* 28th of a leap February, a December and a common February
BoundaryMoments ==
    LET months == {[year |-> FirstYear, month |-> 2], [year |-> FirstYear, month |-> 12],
                   [year |-> FirstYear + 1, month |-> 2]}
        days(m) == {[year |-> m.year, month |-> m.month, day |-> BoundaryDay - 1],
                    [year |-> m.year, month |-> m.month, day |-> BoundaryDay],
                    PeriodEndExcl([year |-> m.year, month |-> m.month, day |-> BoundaryDay])}
    IN  {Moment(d, t) : d \in UNION {days(m) : m \in months}, t \in {0, TicksPerDay - 1}}

\* the stores of one build of the first repository around a boundary (a build
\* of ten minutes with one five-minute step of size 2, or one without a
\* duration and without steps), of a build that never completed, and the
\* empty store
BoundaryStores ==
    LET measured(at) == StoredBuild(1, at, 600, <<[duration_seconds |-> 300, size_factor |-> 2]>>)
    IN  {<<>>, <<measured(NoMoment)>>}
            \cup {<<measured(at)>> : at \in BoundaryMoments}
            \cup {<<StoredBuild(1, at, NoDuration, <<>>)>> : at \in BoundaryMoments}

Date(year, month, day) == [year |-> year, month |-> month, day |-> day]

\* C10 (as claimed): a reference date of 15 March gives the period 28 February
\* to 28 March, and one of 30 March the period 28 March to 28 April.
C10_WindowExamplesAsClaimed ==
    (minutes28.returned /\ reference_date.month = 3) =>
        /\ reference_date.day = 15 =>
              /\ minutes28.period_start = Date(reference_date.year, 2, 28)
              /\ minutes28.period_end = Date(reference_date.year, 3, 28)
        /\ reference_date.day = 30 =>
              /\ minutes28.period_start = Date(reference_date.year, 3, 28)
              /\ minutes28.period_end = Date(reference_date.year, 4, 28)

\* C10: a reference date of 15 March gives the period 28 January to 28
\* February, and one of 30 March the period 28 February to 28 March: the
\* period ends on the most recent 28th on or before the reference date.
C10_WindowExamples ==
    (minutes28.returned /\ reference_date.month = 3) =>
        /\ reference_date.day = 15 =>
              /\ minutes28.period_start = Date(reference_date.year, 1, 28)
              /\ minutes28.period_end = Date(reference_date.year, 2, 28)
        /\ reference_date.day = 30 =>
              /\ minutes28.period_start = Date(reference_date.year, 2, 28)
              /\ minutes28.period_end = Date(reference_date.year, 3, 28)

\* the period of a 15 March was reported
C10_Witness ==
    /\ minutes28.returned
    /\ reference_date.month = 3 /\ reference_date.day = 15
    /\ minutes28.period_end.month = 2

\* the months of the years of the model and of the year before, in order
MonthNumber(year, month) == 12 * (year - (FirstYear - 1)) + month

RECURSIVE DaysBefore(_)
\* the number of days from 1 January of the year before FirstYear to the
\* first of the n-th month
DaysBefore(n) ==
    IF n = 1 THEN 0
    ELSE DaysBefore(n - 1)
             + DaysInMonth(FirstYear - 1 + ((n - 2) \div 12), ((n - 2) % 12) + 1)

DaysBeforeMonth == [n \in 1..(12 * (NumYears + 1) + 1) |-> DaysBefore(n)]

\* the number of days from 1 January of the year before FirstYear to a date
DayNumber(date) == DaysBeforeMonth[MonthNumber(date.year, date.month)] + date.day

\* every 28th of the years of the model and of the year before
TwentyEighths ==
    {[year |-> y, month |-> m, day |-> 28] :
        y \in (FirstYear - 1)..(FirstYear + NumYears - 1), m \in 1..12}

\* d is a 28th, and no 28th lies after d and on or before the day number n
LatestTwentyEighth(d, n) ==
    /\ d \in TwentyEighths
    /\ DayNumber(d) <= n
    /\ \A e \in TwentyEighths : ~(DayNumber(d) < DayNumber(e) /\ DayNumber(e) <= n)

\* the builds of a repository that have a duration of their own or a step
\* with one, and completed from 00:00 of the start day to the end of the end day
CountedBuilds(rid) ==
    {i \in 1..Len(build_store) :
        /\ build_store[i].repository_id = rid
        /\ \/ build_store[i].duration_seconds # NoDuration
           \/ \E k \in 1..Len(build_store[i].steps) :
                 build_store[i].steps[k].duration_seconds # NoDuration
        /\ build_store[i].completed_on # NoMoment
        /\ DayNumber(minutes28.period_start) <= DayNumber(build_store[i].completed_on)
        /\ DayNumber(build_store[i].completed_on) <= DayNumber(minutes28.period_end)}

\* C11: the period ends on the most recent 28th on or before the reference
\* date (January rolling back to December of the year before) and starts on
\* the 28th of the month before that, period_start < period_end <= reference
\* date, and a repository is reported if and only if one of its builds (of
\* the repository asked for, if any) completed in the closed window from
\* 00:00 of the start 28th through the end of the end 28th.
C11_BoundaryRule ==
    minutes28.returned =>
        LET end == minutes28.period_end
        IN  /\ LatestTwentyEighth(end, DayNumber(reference_date))
            /\ LatestTwentyEighth(minutes28.period_start, DayNumber(end) - 1)
            /\ (reference_date.day < 28 /\ reference_date.month = 1) =>
                  minutes28.period_end = Date(reference_date.year - 1, 12, 28)
            /\ minutes28.period_start.month = PrevMonth(minutes28.period_end.year,
                                                        minutes28.period_end.month).month
            /\ DayNumber(minutes28.period_start) < DayNumber(minutes28.period_end)
            /\ DayNumber(minutes28.period_end) <= DayNumber(reference_date)
            /\ \A rid \in Repos :
                  rid \in DOMAIN minutes28.by_repo <=>
                      /\ minutes28.repository_id \in {NoRepo, rid}
                      /\ CountedBuilds(rid) # {}

\* a build that completed in the last tick of the end 28th was counted, the
\* end having rolled back from a January to the December before
C11_Witness ==
    /\ minutes28.returned
    /\ reference_date.month = 1 /\ reference_date.day < 28
    /\ minutes28.period_end.month = 12
    /\ build_store # <<>>
    /\ build_store[1].completed_on =
          Moment(minutes28.period_end, TicksPerDay - 1)
    /\ 1 \in DOMAIN minutes28.by_repo

(***************************************************************************)
(* Diagnostic Engine (app/diagnostics.py)                                  *)
(***************************************************************************)
MaxDiagnostics == 3

MaxFindings == 3

\* Repository.name is unique per repository; the name of repository r is r.
RepoName(r) == r

\* The findings the detectors can report.  value is in hundredths (a
\* regression percentage or a waste ratio) for the detector findings, a
\* repository count for the cross-repository finding and the number of
\* matches for a pattern match; fid is the BuildFailure id of a pattern match.
FindingUniverse ==
    { [kind |-> "regression", repo |-> 1, step |-> "", fid |-> 0, value |-> 2504],
      [kind |-> "step_regression", repo |-> 2, step |-> "test", fid |-> 0, value |-> 6001],
      [kind |-> "memory_waste", repo |-> 1, step |-> "build", fid |-> 0, value |-> 251],
      [kind |-> "memory_waste", repo |-> 1, step |-> "test", fid |-> 0, value |-> 249],
      [kind |-> "cross_repo_step_regression", repo |-> NoRepo, step |-> "build", fid |-> 0, value |-> 2],
      [kind |-> "pattern_match", repo |-> 2, step |-> "", fid |-> 1, value |-> 2] }

\* A detector reports at most one finding per subject.
Subject(f) == <<f.kind, f.repo, f.step, f.fid>>

ValidFindings(fs) ==
    /\ fs \subseteq FindingUniverse
    /\ Cardinality(fs) <= MaxFindings
    /\ \A f, g \in fs : Subject(f) = Subject(g) => f = g

\* f"{x:.1f}" of a value given in hundredths: the value in tenths, rounded.
Fmt1(v) == (v + 5) \div 10

\* the diagnostic type of a finding
DiagType(f) ==
    IF f.kind \in {"memory_waste", "time_waste"} THEN "resource_waste" ELSE f.kind

Title(f) ==
    CASE f.kind = "regression" ->
            [tpl |-> "Build duration regressed N% in R", step |-> "", num |-> Fmt1(f.value), repo |-> RepoName(f.repo)]
      [] f.kind = "step_regression" ->
            [tpl |-> "Step S regressed N% in R", step |-> f.step, num |-> Fmt1(f.value), repo |-> RepoName(f.repo)]
      [] f.kind = "memory_waste" ->
            [tpl |-> "Memory limit Nx higher than peak usage in R", step |-> "", num |-> Fmt1(f.value), repo |-> RepoName(f.repo)]
      [] f.kind = "time_waste" ->
            [tpl |-> "Timeout Nx higher than actual duration in R", step |-> "", num |-> Fmt1(f.value), repo |-> RepoName(f.repo)]
      [] f.kind = "cross_repo_step_regression" ->
            [tpl |-> "Step S regressed across N repositories", step |-> f.step, num |-> f.value, repo |-> NoRepo]
      [] OTHER ->
            [tpl |-> "Failure pattern matches N other occurrences", step |-> "", num |-> f.value, repo |-> NoRepo]

Severity(f) ==
    CASE f.kind \in {"regression", "step_regression"} ->
            IF f.value > 5000 THEN "high" ELSE "medium"
      [] f.kind \in {"memory_waste", "time_waste"} -> "low"
      [] f.kind = "cross_repo_step_regression" -> "high"
      [] OTHER -> "medium"

CreateDiagnostic(f) ==
    [repository_id |-> f.repo, type |-> DiagType(f), severity |-> Severity(f),
     title |-> Title(f), metadata |-> f]

\* The order in which generate_diagnostics visits the findings of one phase.
KindRank(k) ==
    CASE k = "regression" -> 1
      [] k = "step_regression" -> 2
      [] k = "memory_waste" -> 3
      [] k = "time_waste" -> 4
      [] k = "cross_repo_step_regression" -> 5
      [] OTHER -> 6

\* per-repository findings first (repository by repository), then the
\* cross-repository step regressions, then the pattern matches
VisitKey(f) ==
    IF f.kind \in {"regression", "step_regression", "memory_waste", "time_waste"}
    THEN f.repo * 10 + KindRank(f.kind)
    ELSE 1000 + KindRank(f.kind) * 10 + f.repo

RECURSIVE InVisitOrder(_)
InVisitOrder(fs) ==
    IF fs = {} THEN <<>>
    ELSE LET f == CHOOSE x \in fs :
                     \A y \in fs : \/ VisitKey(x) < VisitKey(y)
                                   \/ /\ VisitKey(x) = VisitKey(y)
                                      /\ (x.step = "build" \/ y.step # "build")
         IN  <<f>> \o InVisitOrder(fs \ {f})

GenerateDiagnostics(fs) ==
    LET order == InVisitOrder(fs)
    IN  [i \in 1..Len(order) |-> CreateDiagnostic(order[i])]

\* the comparison rendered as "= NULL", which no row satisfies
SqlNullEq(a, b) == a = b /\ a # NoRepo

\* Diagnostic.repository_id == diag.get("repository_id"): SQLAlchemy renders a
\* comparison with None as IS NULL, so a NULL repository matches a NULL one.
SameRepository(a, b) == a = b

Existing(table, diag) ==
    \E i \in 1..Len(table) :
        /\ SameRepository(table[i].repository_id, diag.repository_id)
        /\ table[i].diagnostic_type = diag.type
        /\ table[i].title = diag.title

NewRow(diag) ==
    [repository_id |-> diag.repository_id, diagnostic_type |-> diag.type,
     severity |-> diag.severity, title |-> diag.title,
     diagnostic_metadata |-> diag.metadata, acknowledged |-> FALSE]

\* Whether the session flushes pending rows before each query (the
\* sessionmaker default), so that a lookup also sees the rows added earlier
\* in the same call.
SessionAutoflush == TRUE

RECURSIVE SaveLoop(_, _, _)
SaveLoop(table, pending, diags) ==
    IF diags = <<>> THEN table \o pending
    ELSE LET diag == Head(diags)
             visible == IF SessionAutoflush THEN table \o pending ELSE table
         IN  IF ~Existing(visible, diag)
             THEN SaveLoop(table, Append(pending, NewRow(diag)), Tail(diags))
             ELSE SaveLoop(table, pending, Tail(diags))

\* save_diagnostics: look up, add when absent, commit at the end
SaveDiagnostics(table, diags) == SaveLoop(table, <<>>, diags)

\* The stored builds change (a collection cycle ran): a detector starts or
\* stops reporting a finding.
DataChange ==
    /\ \E f \in FindingUniverse :
          LET fs == IF f \in findings THEN findings \ {f} ELSE findings \cup {f}
          IN  /\ ValidFindings(fs)
              /\ findings' = fs
    /\ UNCHANGED <<diagnostics, patternVars, analyzerVars, storeVars, detectorVars, wasteVars, windowVars, collectorVars, enrichVars, latestVars, overlapVars>>

\* POST /api/diagnostics/generate and the scheduled cycle:
\* generate_diagnostics followed by save_diagnostics
RunDiagnostics ==
    /\ Len(SaveDiagnostics(diagnostics, GenerateDiagnostics(findings))) <= MaxDiagnostics
    /\ diagnostics' = SaveDiagnostics(diagnostics, GenerateDiagnostics(findings))
    /\ UNCHANGED <<findings, patternVars, analyzerVars, storeVars, detectorVars, wasteVars, windowVars, collectorVars, enrichVars, latestVars, overlapVars>>

\* A diagnostic is acknowledged (the flag the dashboard filters on).
Acknowledge ==
    /\ \E i \in 1..Len(diagnostics) :
          /\ ~diagnostics[i].acknowledged
          /\ diagnostics' = [diagnostics EXCEPT ![i].acknowledged = TRUE]
    /\ UNCHANGED <<findings, patternVars, analyzerVars, storeVars, detectorVars, wasteVars, windowVars, collectorVars, enrichVars, latestVars, overlapVars>>

(***************************************************************************)
(* Claims about the Diagnostic Engine                                      *)
(***************************************************************************)
RowKey(row) == <<row.repository_id, row.diagnostic_type, row.title>>

DiagKey(diag) == <<diag.repository_id, diag.type, diag.title>>

Candidates == GenerateDiagnostics(findings)

AfterOneRun == SaveDiagnostics(diagnostics, Candidates)

UnacknowledgedWithKey(table, key) ==
    {i \in 1..Len(table) : RowKey(table[i]) = key /\ ~table[i].acknowledged}

RowsWithKey(table, key) == {i \in 1..Len(table) : RowKey(table[i]) = key}

C2_SkipsOnlyUnacknowledged ==
    \A i \in 1..Len(Candidates) :
        LET key == DiagKey(Candidates[i])
        IN  ( /\ UnacknowledgedWithKey(diagnostics, key) = {}
              /\ \A j \in 1..(i - 1) : DiagKey(Candidates[j]) # key )
            => Cardinality(RowsWithKey(AfterOneRun, key))
                 = Cardinality(RowsWithKey(diagnostics, key)) + 1

(***************************************************************************)
(* Suggestion enrichment (app/ai/suggestion_generator.py) of the            *)
(* diagnostics that app/diagnostics.py creates.  A message is its base      *)
(* text and the text appended to it.                                        *)
(***************************************************************************)
\* a generator whose external calls are not wrapped in try/except
QuerySuggestionUncaught(ai_provider, reply) ==
    [raised |-> reply.kind = "raises" \/ reply.body \in {"malformed", "list_of_text", "null_text"},
     suggestion |-> None]

\* _generate_suggestion: the suggestion drawn from the reply of the external
\* call, None when there is none, and whether an exception escaped.
\* _query_huggingface and _query_openai catch every exception of the call
\* and of the handling of its reply.
QuerySuggestion(ai_provider, reply) ==
    LET text == reply.text
        dots == {i \in 1..Len(text) : text[i] = "."}
        first_sentence ==
            (IF dots = {} THEN text
             ELSE SubSeq(text, 1, (CHOOSE i \in dots : \A j \in dots : i <= j) - 1)) \o <<".">>
        huggingface ==
            IF reply.kind = "raises" THEN None
            ELSE IF reply.status = 503 \/ reply.status # 200 THEN None
            ELSE IF reply.body \in {"malformed", "object", "empty_list", "list_of_text"}
                 THEN None
            ELSE IF reply.body = "null_text" \/ text = EmptyStr THEN None
            ELSE first_sentence
        openai ==
            IF reply.kind = "raises" \/ reply.status # 200 \/ reply.body # "text" THEN None
            ELSE Strip(text)
    IN  [raised |-> FALSE,
         suggestion |-> IF ai_provider = "huggingface" THEN huggingface
                        ELSE IF ai_provider = "openai" THEN openai ELSE None]

\* enhance_diagnostic of a generator built from the settings: the message
\* returned, and whether an exception escaped.  _build_prompt slices the
\* commit hash of a regression, which raises on None.
EnhanceDiagnostic(settings, diagnostic, commit_hash, reply) ==
    LET enabled == settings.use_ai_suggestions /\ settings.ai_provider # "none"
        use_ai == IF settings.ai_provider = "openai" /\ settings.openai_api_key THEN enabled
                  ELSE IF settings.ai_provider = "huggingface" THEN enabled
                  ELSE FALSE
        prompt_raises == diagnostic.type = "regression" /\ commit_hash = None
        answer == QuerySuggestion(settings.ai_provider, reply)
        separator == <<"\n", "\n", "(lamp)", " ", "S", "u", "g", "g", "e", "s", "t", "i",
                       "o", "n", ":", " ">>
    IN  IF ~use_ai THEN [raised |-> FALSE, message |-> diagnostic.message]
        ELSE IF prompt_raises \/ answer.raised
             THEN [raised |-> TRUE, message |-> diagnostic.message]
        ELSE IF answer.suggestion # None /\ answer.suggestion # EmptyStr
             THEN [raised |-> FALSE,
                   message |-> [diagnostic.message EXCEPT
                                   !.appended = separator \o answer.suggestion]]
             ELSE [raised |-> FALSE, message |-> diagnostic.message]

\* the _create_..._diagnostic of a finding: the diagnostic with its base
\* message, enhanced for a regression, a step regression and a resource
\* waste.  The base message of a regression and of a step regression slices
\* the commit hash, which raises on None before anything is enhanced.
\* raised is "no", "create" or "enhance".
CreateEnhancedDiagnostic(settings, f, commit_hash, reply) ==
    LET base == CreateDiagnostic(f)
        tpl == CASE f.kind = "regression" ->
                       "Repo R is slow because builds regressed N% (from B to M median). This regression occurred after commit C."
                 [] f.kind = "step_regression" -> "Step S in R regressed N% after commit C."
                 [] f.kind = "memory_waste" ->
                       "Step S in R has memory limit Nx higher than peak usage (L limit vs P peak). Reduce to T to save build minutes."
                 [] f.kind = "time_waste" ->
                       "Step S in R has timeout Nx higher than actual duration (L timeout vs P actual). Reduce timeout to T to save build minutes."
                 [] f.kind = "cross_repo_step_regression" ->
                       "Step S has regressed an average of N% across K repositories: NAMES."
                 [] OTHER ->
                       "This failure in R matches a known pattern seen in N other builds. Error: E"
        diagnostic == [repository_id |-> base.repository_id, type |-> base.type,
                       severity |-> base.severity, title |-> base.title,
                       message |-> [base |-> [tpl |-> tpl, finding |-> f, commit |-> commit_hash],
                                    appended |-> EmptyStr],
                       metadata |-> base.metadata]
        enhanced == EnhanceDiagnostic(settings, diagnostic, commit_hash, reply)
    IN  IF f.kind \in {"regression", "step_regression"} /\ commit_hash = None
        THEN [raised |-> "create", diagnostic |-> None]
        ELSE IF f.kind \in {"cross_repo_step_regression", "pattern_match"}
        THEN [raised |-> "no", diagnostic |-> diagnostic]
        ELSE IF enhanced.raised THEN [raised |-> "enhance", diagnostic |-> None]
        ELSE [raised |-> "no", diagnostic |-> [diagnostic EXCEPT !.message = enhanced.message]]

\* before any diagnostic was created
NotEnhanced ==
    [returned |-> FALSE, settings |-> None, finding |-> None, commit_hash |-> None,
     reply |-> None, created |-> None]

\* a finding is made into a diagnostic under the settings and with the
\* reply of the external call that the call was set up with
CallCreateDiagnostic ==
    /\ ~enrichment.returned
    /\ enrichment' =
          [enrichment EXCEPT !.returned = TRUE,
                             !.created = CreateEnhancedDiagnostic(enrichment.settings,
                                             enrichment.finding, enrichment.commit_hash,
                                             enrichment.reply)]
    /\ UNCHANGED <<diagVars, patternVars, analyzerVars, storeVars, detectorVars, wasteVars,
                   windowVars, collectorVars, latestVars, overlapVars>>

\* C13: whatever the settings and the outcome of the external call, the
\* enrichment does not raise: a diagnostic is created whenever its base
\* message could be built; its message is the original message, or the
\* original message followed by an appended suggestion; repository, type,
\* severity, title and metadata are those of the diagnostic before
\* enrichment.
C13_EnrichmentIsAdvisory ==
    enrichment.returned =>
        LET created == enrichment.created
            f == enrichment.finding
            original == CreateDiagnostic(f)
            appended == created.diagnostic.message.appended
        IN  /\ created.raised # "enhance"
            /\ created.raised = "create" <=>
                  f.kind \in {"regression", "step_regression"} /\ enrichment.commit_hash = None
            /\ created.raised = "no" =>
                  /\ created.diagnostic.type = original.type
                  /\ created.diagnostic.severity = original.severity
                  /\ created.diagnostic.title = original.title
                  /\ created.diagnostic.metadata = f
                  /\ created.diagnostic.repository_id = original.repository_id
                  /\ created.diagnostic.message.base.finding = f
                  /\ created.diagnostic.message.base.commit = enrichment.commit_hash
                  /\ \/ appended = EmptyStr
                     \/ /\ Len(appended) > 16
                        /\ SubSeq(appended, 1, 2) = <<"\n", "\n">>
                        /\ SubSeq(appended, 4, 16) = <<" ", "S", "u", "g", "g", "e", "s", "t",
                                                       "i", "o", "n", ":", " ">>

\* the external call failed and the message of the regression diagnostic is
\* the original one
C13_Witness ==
    /\ enrichment.returned
    /\ enrichment.settings.ai_provider = "huggingface"
    /\ enrichment.settings.use_ai_suggestions
    /\ enrichment.reply.kind = "raises"
    /\ enrichment.finding.kind = "regression"
    /\ enrichment.created.raised = "no"
    /\ enrichment.created.diagnostic.message.appended = EmptyStr

(***************************************************************************)
(* The collector (app/collector.py): the rows collect_builds,              *)
(* collect_pull_requests, collect_deployments and collect_all add for the   *)
(* responses of the provider.  Times are whole numbers, NoTime a missing    *)
(* one; a commit hash is a number, NoCommit the empty string.               *)
(***************************************************************************)
NoTime == 0

NoCommit == 0

\* BuildFailure.step_id of a step that has no id yet
NoStep == 0

\* the size_factor stored for the size field of a step: an int as it is, the
\* first run of digits of a str, else None; then size_factor or 1
StoredSizeFactor(size) ==
    LET s == size.text
        starts == {i \in 1..Len(s) : s[i] \in Digits}
        first == CHOOSE i \in starts : \A j \in starts : i <= j
        digit(c) == CHOOSE n \in 0..9 : ToString(n) = c
        RECURSIVE ToInt(_, _)
        ToInt(i, j) == IF j < i THEN 0 ELSE 10 * ToInt(i, j - 1) + digit(s[j])
        size_factor == IF size.kind = "int" THEN size.int
                       ELSE IF size.kind = "str" /\ starts # {}
                            THEN ToInt(first, RunEnd(s, first, Digits))
                            ELSE NullSizeFactor
    IN  IF size_factor = NullSizeFactor \/ size_factor = 0 THEN 1 ELSE size_factor

\* the rows a query sees: with autoflush also the rows added since the last
\* flush, of which there are pending
Visible(rows, pending) ==
    IF SessionAutoflush THEN rows ELSE SubSeq(rows, 1, Len(rows) - pending)

\* db.commit(): every row is flushed and committed
Commit(db) ==
    [db EXCEPT !.pending_deployments = 0, !.pending_pull_requests = 0,
               !.committed = [builds |-> Len(db.builds), build_steps |-> Len(db.build_steps),
                              build_failures |-> Len(db.build_failures),
                              deployments |-> Len(db.deployments),
                              pull_requests |-> Len(db.pull_requests)]]

\* a lookup of the builds that sees only committed rows
ExistingBuildCommitted(db, pipeline_uuid) ==
    \E i \in 1..db.committed.builds : db.builds[i].pipeline_uuid = pipeline_uuid

\* query(Build).filter(Build.pipeline_uuid == uuid).first(): every build is
\* flushed as it is added
ExistingBuild(db, pipeline_uuid) ==
    \E i \in 1..Len(db.builds) : db.builds[i].pipeline_uuid = pipeline_uuid

\* an existing build brought up to date with the run listed
RefreshExisting(db, pipeline_data) ==
    [db EXCEPT !.builds = [i \in 1..Len(db.builds) |->
                              IF db.builds[i].pipeline_uuid = pipeline_data.uuid
                              THEN [db.builds[i] EXCEPT !.state = pipeline_data.state,
                                                        !.completed_on = pipeline_data.completed_on]
                              ELSE db.builds[i]]]

\* if existing: continue
SkipExisting(db, pipeline_data) == db

\* a lookup of the deployments that sees only committed rows
ExistingDeploymentCommitted(db, repo, env_name, deployed_at, commit_hash) ==
    \E i \in 1..db.committed.deployments :
        /\ db.deployments[i].repository_id = repo
        /\ db.deployments[i].environment = env_name
        /\ db.deployments[i].deployed_at = deployed_at
        /\ db.deployments[i].commit_hash = commit_hash

\* the lookup of collect_deployments, on (repo, env, deployed_at, commit_hash)
ExistingDeployment(db, repo, env_name, deployed_at, commit_hash) ==
    \E i \in 1..Len(Visible(db.deployments, db.pending_deployments)) :
        /\ db.deployments[i].repository_id = repo
        /\ db.deployments[i].environment = env_name
        /\ db.deployments[i].deployed_at = deployed_at
        /\ db.deployments[i].commit_hash = commit_hash

\* collect_builds(repo_slug) of a synced repository.  A response that raises
\* is a list whose first pipeline has no uuid; a pipeline whose dates do not
\* parse raises out of collect_builds before the commit; a step whose dates do not parse, or a fetch of the
\* steps that raises, ends the steps of that build only.
CollectBuildsRows(db, repo, response) ==
    LET \* the lookup of the step deployments: a deployment of the repository
        \* to the environment at the time, whatever its commit
        ExistingStepDeployment(d, dep_env, deployed_at) ==
            \E i \in 1..Len(Visible(d.deployments, d.pending_deployments)) :
                /\ d.deployments[i].repository_id = repo
                /\ d.deployments[i].environment = dep_env
                /\ d.deployments[i].deployed_at = deployed_at
        \* step = BuildStep(...); self.db.add(step)
        AddStep(d, step_data) ==
            [d EXCEPT !.build_steps = Append(@,
                         [build_id |-> Len(d.builds), state |-> step_data.state,
                          size_factor |-> StoredSizeFactor(step_data.size),
                          log_excerpt |-> None])]
        \* if step.state == "FAILED": the step with the excerpt of its log, if
        \* one was fetched, and its failure: self.db.add(failure)
        AddFailedStep(d, step_data, created) ==
            [d EXCEPT !.build_steps = Append(@,
                         [build_id |-> Len(d.builds), state |-> step_data.state,
                          size_factor |-> StoredSizeFactor(step_data.size),
                          log_excerpt |-> IF created.log_excerpt # EmptyStr
                                          THEN created.log_excerpt ELSE None]),
                      !.build_failures = Append(@,
                         [build_id |-> Len(d.builds), step_id |-> NoStep,
                          error_message |-> created.error_message,
                          error_pattern |-> created.error_pattern])]
        \* if dep_env and step.state == "SUCCESSFUL": ... self.db.add(deployment)
        AddStepDeployment(d, build, step_data, deployed_at) ==
            IF /\ step_data.env # ""
               /\ step_data.state = "SUCCESSFUL"
               /\ ~ExistingStepDeployment(d, step_data.env, deployed_at)
            THEN [d EXCEPT !.deployments = Append(@,
                     [repository_id |-> repo, environment |-> step_data.env,
                      deployed_at |-> deployed_at, build_id |-> Len(d.builds),
                      commit_hash |-> build.commit_hash]),
                           !.pending_deployments = @ + 1]
            ELSE d
        RECURSIVE CollectSteps(_, _, _)
        CollectSteps(d, build, steps_data) ==
            IF steps_data = <<>> \/ Head(steps_data).malformed THEN d
            ELSE LET step_data == Head(steps_data)
                     \* step_completed or completed_on
                     deployed_at == IF step_data.completed_on # NoTime
                                    THEN step_data.completed_on ELSE build.completed_on
                     with_failure ==
                         IF step_data.state = "FAILED"
                         THEN CHOOSE stored \in
                                  {AddFailedStep(d, step_data, created) : created \in
                                      {NewBuildFailure(repo, step_data.message,
                                           [log |-> step_data.log,
                                            fetch |-> step_data.log_fetch],
                                           deployed_at)}} : TRUE
                         ELSE AddStep(d, step_data)
                     with_deployment ==
                         AddStepDeployment(with_failure, build, step_data, deployed_at)
                 IN  CollectSteps(with_deployment, build, Tail(steps_data))
        \* self.db.add(build); self.db.flush()
        Flushed(d, build) ==
            [d EXCEPT !.builds = Append(@, build),
                      !.pending_deployments = 0,
                      !.pending_pull_requests = 0]
        RECURSIVE CollectPipelines(_, _)
        CollectPipelines(d, pipelines) ==
            IF pipelines = <<>> THEN [db |-> Commit(d), raised |-> FALSE]
            ELSE LET pipeline_data == Head(pipelines)
                     build == [repository_id |-> repo, pipeline_uuid |-> pipeline_data.uuid,
                               commit_hash |-> pipeline_data.commit_hash,
                               state |-> pipeline_data.state,
                               completed_on |-> pipeline_data.completed_on]
                     flushed == Flushed(d, build)
                     stored == IF ExistingBuild(d, pipeline_data.uuid)
                               THEN SkipExisting(d, pipeline_data)
                               ELSE IF pipeline_data.steps_raise THEN flushed
                               ELSE CollectSteps(flushed, build, pipeline_data.steps)
                 IN  IF ~ExistingBuild(d, pipeline_data.uuid) /\ pipeline_data.malformed
                     THEN [db |-> d, raised |-> TRUE]
                     ELSE CollectPipelines(stored, Tail(pipelines))
    IN  IF response.raises THEN [db |-> db, raised |-> TRUE]
        ELSE CollectPipelines(db, response.data)

\* collect_pull_requests(repo_slug); get_pull_requests may raise
CollectPullRequestsRows(db, repo, response) ==
    LET RECURSIVE CollectPullRequests(_, _)
        CollectPullRequests(d, prs) ==
            IF prs = <<>> THEN Commit(d)
            ELSE LET pr == [repository_id |-> repo, pr_id |-> Head(prs)]
                     existing ==
                         \E i \in 1..Len(Visible(d.pull_requests, d.pending_pull_requests)) :
                             d.pull_requests[i] = pr
                 IN  CollectPullRequests(
                         IF existing THEN d
                         ELSE [d EXCEPT !.pull_requests = Append(@, pr),
                                        !.pending_pull_requests = @ + 1],
                         Tail(prs))
    IN  IF response.raises THEN [db |-> db, raised |-> TRUE]
        ELSE [db |-> CollectPullRequests(db, response.data), raised |-> FALSE]

\* collect_deployments(repo_slug): a fetch that raises, or an empty list,
\* returns without a commit; a new deployment is linked to the latest build
\* of its commit
CollectDeploymentsRows(db, repo, response) ==
    LET RECURSIVE CollectDeployments(_, _)
        CollectDeployments(d, deployments_data) ==
            IF deployments_data = <<>> THEN Commit(d)
            ELSE LET dep_data == Head(deployments_data)
                     of_commit == {i \in 1..Len(d.builds) :
                                      /\ d.builds[i].repository_id = repo
                                      /\ d.builds[i].commit_hash = dep_data.commit_hash}
                     build_id ==
                         IF dep_data.commit_hash = NoCommit \/ of_commit = {} THEN 0
                         ELSE CHOOSE i \in of_commit : \A j \in of_commit :
                                  \/ d.builds[j].completed_on < d.builds[i].completed_on
                                  \/ /\ d.builds[j].completed_on = d.builds[i].completed_on
                                     /\ i <= j
                     deployment == [repository_id |-> repo,
                                    environment |-> dep_data.environment,
                                    deployed_at |-> dep_data.created_on,
                                    build_id |-> build_id,
                                    commit_hash |-> dep_data.commit_hash]
                 IN  CollectDeployments(
                         IF \/ dep_data.empty
                            \/ ExistingDeployment(d, repo, dep_data.environment,
                                                  dep_data.created_on, dep_data.commit_hash)
                         THEN d
                         ELSE [d EXCEPT !.deployments = Append(@, deployment),
                                        !.pending_deployments = @ + 1],
                         Tail(deployments_data))
    IN  IF response.raises \/ response.data = <<>> THEN db
        ELSE CollectDeployments(db, response.data)

\* the body of the try of collect_all for one repository: the first call
\* that raises ends it
CollectRepository(db, repo, responses) ==
    LET \* self.collect_pull_requests(repo.slug); self.collect_deployments(repo.slug)
        AfterBuilds(b) ==
            LET p == CollectPullRequestsRows(b.db, repo, responses.pull_requests)
            IN  IF b.raised THEN [db |-> b.db, raised |-> TRUE]
                ELSE IF p.raised THEN [db |-> p.db, raised |-> TRUE]
                ELSE [db |-> CollectDeploymentsRows(p.db, repo, responses.deployments),
                      raised |-> FALSE]
    IN  CHOOSE collected \in {AfterBuilds(b) : b \in
                                 {CollectBuildsRows(db, repo, responses.builds)}} : TRUE

RECURSIVE CollectAllStopping(_, _, _)
\* a collect_all that an exception of one repository would end
CollectAllStopping(db, repo, responses) ==
    IF repo > NumRepos THEN db
    ELSE LET r == CollectRepository(db, repo, responses[repo])
         IN  IF r.raised THEN r.db ELSE CollectAllStopping(r.db, repo + 1, responses)

RECURSIVE CollectAllFrom(_, _, _)
\* for repo in repos: try: ... except Exception: continue, from repository repo on
CollectAllFrom(db, repo, responses) ==
    IF repo > NumRepos THEN db
    ELSE CollectAllFrom(CollectRepository(db, repo, responses[repo]).db, repo + 1, responses)

MaxRuns == 3

\* the runs of the provider, pipeline_uuid and commit hash u, completed at u,
\* dealt to the repositories in turn
RunsOf(repo) == {u \in 1..MaxRuns : ((u - 1) % NumRepos) + 1 = repo}

\* what the provider holds: its runs with their steps, the steps with the
\* size fields (absent, an int, a str) in turn, and the deployments it lists for each repository.
\* Either every run has a step that deploys to prod at time 1 and the
\* provider lists deployments of the same time and commit, one of them
\* twice; or every run has two steps that deploy at the same time and the
\* provider lists a deployment of that time and no commit; or the steps fail, do not
\* parse or cannot be fetched, the last run does not parse and the
\* deployments have no time.
ProviderWorlds ==
    LET int(n) == [kind |-> "int", int |-> n, text |-> EmptyStr]
        str(t) == [kind |-> "str", int |-> 0, text |-> t]
        sizes == <<[kind |-> "absent", int |-> 0, text |-> EmptyStr], int(4), int(0), int(-2),
                   str(<<"2", "x">>), str(<<"x", "1", "6">>), str(<<"0">>),
                   str(<<"-", "3">>), str(<<"l", "a", "r", "g", "e">>), str(EmptyStr)>>
        size(k) == sizes[((k - 1) % Len(sizes)) + 1]
        step(k, state, env, at, malformed) ==
            [size |-> size(k), state |-> state, env |-> env, completed_on |-> at,
             malformed |-> malformed, message |-> EmptyStr, log_fetch |-> "ok",
             log |-> <<"E", "R", "R", "O", "R", " ", "b", "o", "o", "m">>]
        pipeline(u, malformed, steps_raise, steps_data) ==
            [uuid |-> u, commit_hash |-> u, completed_on |-> u, malformed |-> malformed,
             state |-> IF \E k \in 1..Len(steps_data) : steps_data[k].state = "FAILED"
                       THEN "FAILED" ELSE "SUCCESSFUL",
             steps_raise |-> steps_raise, steps |-> steps_data]
        deploys(k) == step(k, "SUCCESSFUL", "prod", 1, FALSE)
        dep(at, commit) == [empty |-> FALSE, environment |-> "prod", created_on |-> at,
                            commit_hash |-> commit]
        nothing == [empty |-> TRUE, environment |-> "", created_on |-> NoTime,
                    commit_hash |-> NoCommit]
        world(run(_), deployments(_)) ==
            [runs |-> [u \in 1..MaxRuns |-> run(u)],
             deployments |-> [r \in Repos |-> deployments(r)]]
        deploying ==
            LET run(u) == pipeline(u, FALSE, FALSE, <<deploys(u)>>)
                listed(r) == <<dep(1, r), nothing, dep(1, r)>>
            IN  world(run, listed)
        twice ==
            LET run(u) == pipeline(u, FALSE, FALSE,
                                   <<deploys(MaxRuns + 2 * u - 1), deploys(MaxRuns + 2 * u)>>)
                listed(r) == <<dep(1, NoCommit)>>
            IN  world(run, listed)
        failing ==
            LET run(u) ==
                    IF u = MaxRuns THEN pipeline(u, TRUE, FALSE, <<>>)
                    ELSE IF u = 1
                    THEN pipeline(u, FALSE, FALSE,
                                  <<step(3 * MaxRuns + 1, "FAILED", "prod", NoTime, FALSE),
                                    step(1, "SUCCESSFUL", "prod", 1, TRUE)>>)
                    ELSE pipeline(u, FALSE, TRUE, <<>>)
                listed(r) == <<dep(NoTime, NoCommit), dep(NoTime, NoCommit)>>
            IN  world(run, listed)
    IN  {deploying, twice, failing}

EmptyDb ==
    [builds |-> <<>>, build_steps |-> <<>>, build_failures |-> <<>>, deployments |-> <<>>,
     pull_requests |-> <<>>, pending_deployments |-> 0, pending_pull_requests |-> 0,
     committed |-> [builds |-> 0, build_steps |-> 0, build_failures |-> 0,
                    deployments |-> 0, pull_requests |-> 0]]

\* the last call of the collector: its kind, its repository, whether the
\* fetch raised, the runs or the number of deployments listed, and for a
\* collect_all the call that raised for each repository
NotCollected ==
    [kind |-> "none", repo |-> NoRepo, raises |-> FALSE, listed |-> <<>>, outcome |-> <<>>]

\* an invocation of collect_builds for a repository: the provider lists at
\* most two runs of the repository, maybe the same run twice, or a pipeline
\* without a uuid first, which raises
CallCollectBuilds ==
    /\ \E repo \in Repos, raises \in BOOLEAN :
          \E listed \in {<<>>} \cup {<<u>> : u \in RunsOf(repo)}
                            \cup {<<u, v>> : u \in RunsOf(repo), v \in RunsOf(repo)} :
             /\ raises => listed = <<>>
             /\ session' = CollectBuildsRows(session, repo,
                              [raises |-> raises,
                               data |-> [i \in 1..Len(listed) |-> provider.runs[listed[i]]]]).db
             /\ last_collect' = [NotCollected EXCEPT !.kind = "builds", !.raises = raises,
                                                     !.listed = listed]
    /\ UNCHANGED <<provider, diagVars, patternVars, analyzerVars, storeVars, detectorVars,
                   wasteVars, windowVars, enrichVars, latestVars, overlapVars>>

\* an invocation of collect_deployments for a repository: the fetch raises
\* or lists the first deployments of the repository
CallCollectDeployments ==
    /\ \E repo \in Repos, raises \in BOOLEAN :
          \E n \in 0..Len(provider.deployments[repo]) :
             /\ raises => n = 0
             /\ session' = CollectDeploymentsRows(session, repo,
                              [raises |-> raises,
                               data |-> SubSeq(provider.deployments[repo], 1, n)])
             /\ last_collect' = [NotCollected EXCEPT !.kind = "deployments", !.repo = repo,
                                                     !.raises = raises, !.listed = <<n>>]
    /\ UNCHANGED <<provider, diagVars, patternVars, analyzerVars, storeVars, detectorVars,
                   wasteVars, windowVars, enrichVars, latestVars, overlapVars>>

\* an invocation of collect_all: collect_repositories commits, then every
\* repository of the list in turn, any call of which may raise.  The
\* provider lists every run and every deployment of a repository, and a
\* pull request twice.
CallCollectAll ==
    /\ \E outcome \in [Repos -> {"ok", "builds", "pull_requests", "deployments"}] :
          LET RECURSIVE Ascending(_)
              Ascending(us) == IF us = {} THEN <<>>
                               ELSE LET u == CHOOSE x \in us : \A y \in us : x <= y
                                    IN  <<provider.runs[u]>> \o Ascending(us \ {u})
              responses(r) ==
                  [builds |-> [raises |-> outcome[r] = "builds",
                               data |-> Ascending(RunsOf(r))],
                   pull_requests |-> [raises |-> outcome[r] = "pull_requests",
                                      data |-> <<1, 1>>],
                   deployments |-> [raises |-> outcome[r] = "deployments",
                                    data |-> provider.deployments[r]]]
          IN  /\ session' = CollectAllFrom(Commit(session), 1, [r \in Repos |-> responses(r)])
              /\ last_collect' = [NotCollected EXCEPT !.kind = "all", !.outcome = outcome]
    /\ UNCHANGED <<provider, diagVars, patternVars, analyzerVars, storeVars, detectorVars,
                   wasteVars, windowVars, enrichVars, latestVars, overlapVars>>

(***************************************************************************)
(* Claims about the collector                                              *)
(***************************************************************************)
\* the numbers of builds, steps, failures and deployments stored
RowCounts(db) ==
    <<Len(db.builds), Len(db.build_steps), Len(db.build_failures), Len(db.deployments)>>

\* the builds stored for a run
BuildsOfRun(db, u) == {i \in 1..Len(db.builds) : db.builds[i].pipeline_uuid = u}

\* C12: after every invocation of the collector the store holds at most one
\* Build for each pipeline_uuid, and a collect_builds whose provider lists
\* only runs that are stored already adds no Build, BuildStep, BuildFailure
\* or Deployment row.
C12_OneBuildPerRun ==
    [][/\ \A u \in 1..MaxRuns : Cardinality(BuildsOfRun(session', u)) <= 1
       /\ (/\ last_collect'.kind = "builds"
           /\ \A k \in 1..Len(last_collect'.listed) :
                 BuildsOfRun(session, last_collect'.listed[k]) # {})
              => RowCounts(session') = RowCounts(session)]_vars

\* a collect_builds listed the same run twice in one poll, the run was not
\* stored before another run, and it is stored once with its steps
C12_Witness ==
    /\ last_collect.kind = "builds"
    /\ Len(last_collect.listed) = 2
    /\ last_collect.listed[1] = last_collect.listed[2]
    /\ BuildsOfRun(session, last_collect.listed[1]) = {Len(session.builds)}
    /\ Len(session.builds) >= 2
    /\ Len(session.build_steps) >= 2

\* a call of collect_all raised for the repository: a fetch raised, or a
\* pipeline of the repository does not parse
RaisedFor(r, outcome) ==
    \/ outcome[r] # "ok"
    \/ \E u \in RunsOf(r) : provider.runs[u].malformed

\* every run, the pull request and every deployment the provider lists for
\* the repository is stored
Collected(db, r) ==
    /\ \A u \in RunsOf(r) : BuildsOfRun(db, u) # {}
    /\ \E i \in 1..Len(db.pull_requests) :
          db.pull_requests[i] = [repository_id |-> r, pr_id |-> 1]
    /\ \A k \in 1..Len(provider.deployments[r]) :
          LET dep_data == provider.deployments[r][k]
          IN  ~dep_data.empty =>
                 \E i \in 1..Len(db.deployments) :
                    /\ db.deployments[i].repository_id = r
                    /\ db.deployments[i].environment = dep_data.environment
                    /\ db.deployments[i].deployed_at = dep_data.created_on
                    /\ db.deployments[i].commit_hash = dep_data.commit_hash

\* the rows of the first table are the first rows of the second
Kept(before, after) ==
    /\ Len(before) <= Len(after)
    /\ SubSeq(after, 1, Len(before)) = before

C19_SizeFactorAtLeastOne ==
    \A i \in 1..Len(session.build_steps) : session.build_steps[i].size_factor >= 1

\* the natural key of a Deployment row
DeploymentKey(d) == <<d.repository_id, d.environment, d.deployed_at, d.commit_hash>>

MatchingRepos(current_repo_id, hash) ==
    {failures[i].repository_id : i \in {j \in 1..Len(failures) :
                                           /\ failures[j].repository_id # current_repo_id
                                           /\ failures[j].error_pattern = hash}}

\* C15: find_other_repos_with_error returns one entry for each other
\* repository that has a failure with exactly the pattern asked for, up to
\* 10 of them: the most recent such failure of each repository, the most
\* recent first, never the current repository and no repository twice; with
\* fewer than 10 such repositories every one of them is returned, however
\* many matching failures one repository has.
C15_OneEntryPerOtherRepository ==
    (other_repos.returned /\ other_repos.hash # EmptyStr) =>
        LET found == other_repos.found
            matching == MatchingRepos(other_repos.current, other_repos.hash)
        IN  /\ \A k \in 1..Len(found) :
                  /\ failures[found[k]].repository_id \in matching
                  /\ \A j \in 1..Len(failures) :
                        (/\ failures[j].repository_id = failures[found[k]].repository_id
                         /\ failures[j].error_pattern = other_repos.hash)
                           => failures[j].occurred_at <= failures[found[k]].occurred_at
            /\ \A k, l \in 1..Len(found) :
                  /\ k < l => failures[found[l]].occurred_at <= failures[found[k]].occurred_at
                  /\ failures[found[k]].repository_id = failures[found[l]].repository_id
                        => k = l
            /\ Len(found) = Min(FindLimit, Cardinality(matching))

\* C18: a finding of the build detector carries the internal-split note when
\* it was computed by the midpoint fallback, and a finding computed from the
\* baseline and the recent set of the cutoff, each with at least 5 samples,
\* does not carry it.
C18_NoteMarksTheFallback ==
    (regression.returned /\ regression.found) =>
        (regression.note # None
            <=> (Len(BaselineBuilds) < MinSamples \/ Len(RecentBuilds) < MinSamples))

\* the repository has at least 5 baseline and 5 recent samples of the step
\* and its recent median is more than (or, inclusive, at least) 1.2 times
\* its baseline median
ShowsRegression(repo, step_name, inclusive) ==
    LET baseline == {i \in 1..Len(builds) :
                        /\ builds[i].repository_id = repo /\ builds[i].step_name = step_name
                        /\ builds[i].state = "SUCCESSFUL" /\ builds[i].step_duration # NoDuration
                        /\ builds[i].completed_on < cutoff_date}
        recent == {i \in 1..Len(builds) :
                        /\ builds[i].repository_id = repo /\ builds[i].step_name = step_name
                        /\ builds[i].state = "SUCCESSFUL" /\ builds[i].step_duration # NoDuration
                        /\ builds[i].completed_on >= cutoff_date}
        baseline2 == Median2(StepDurations(ByCompletedDesc(baseline)))
        recent2 == Median2(StepDurations(ByCompletedDesc(recent)))
    IN  /\ Cardinality(baseline) >= 5
        /\ Cardinality(recent) >= 5
        /\ IF inclusive THEN 10 * recent2 >= 12 * baseline2 ELSE 10 * recent2 > 12 * baseline2

\* the finding aggregates exactly the repositories that show a regression,
\* is found exactly when there are at least 2 of them, counts them and
\* reports the mean of their percentages
AggregatesExactly(inclusive) ==
    cross_regression.returned =>
        LET showing == {r \in Repos : ShowsRegression(r, cross_regression.step_name, inclusive)}
            regressed == cross_regression.regressed_repos
            percent(r) ==
                LET recent2 == Median2(StepDurations(RepoSteps(r, cross_regression.step_name, TRUE)))
                    baseline2 == Median2(StepDurations(RepoSteps(r, cross_regression.step_name, FALSE)))
                IN  [num |-> (recent2 - baseline2) * 100, den |-> baseline2]
        IN  /\ cross_regression.found <=> Cardinality(showing) >= 2
            /\ cross_regression.found =>
                  /\ {regressed[k].repository_id : k \in 1..Len(regressed)} = showing
                  /\ Len(regressed) = Cardinality(showing)
                  /\ cross_regression.repo_count = Cardinality(showing)
                  /\ \A k \in 1..Len(regressed) :
                        regressed[k].percent_num * percent(regressed[k].repository_id).den
                           = percent(regressed[k].repository_id).num * regressed[k].percent_den
                  \* with two repositories: avg = (p1 + p2) / 2
                  /\ Cardinality(showing) = 2 =>
                        LET p1 == percent(regressed[1].repository_id)
                            p2 == percent(regressed[2].repository_id)
                        IN  cross_regression.avg_num * (2 * p1.den * p2.den)
                               = (p1.num * p2.den + p2.num * p1.den) * cross_regression.avg_den

\* C16 (as claimed): detect_cross_repo_step_regression aggregates exactly the
\* repositories whose recent median is at least 1.2 times the baseline
\* median, with at least 5 samples in each set, returns a finding if and
\* only if at least 2 repositories are aggregated, repo_count is their
\* number and avg_regression_percent the mean of their percentages.
C16_AggregatesAtLeastTwentyPercent == AggregatesExactly(TRUE)

\* C16 (amended): the same with the repositories whose recent median is
\* more than 1.2 times the baseline median: a regression of exactly 20% is
\* not aggregated.
C16_AggregatesMoreThanTwentyPercent == AggregatesExactly(FALSE)

\* two repositories regressed by 25% and 50% and the finding reports both
C16_Witness ==
    /\ cross_regression.returned /\ cross_regression.found
    /\ cross_regression.repo_count = 2
    /\ cross_regression.step_name = "test"
    /\ cross_regression.avg_num * 2 = 75 * cross_regression.avg_den

\* the measured steps of the builds of the repository that completed in the
\* window: pairs of a build and a step
WindowSteps(rid, from, to) ==
    {bs \in UNION {{<<i, k>> : k \in 1..Len(build_store[i].steps)} :
                      i \in 1..Len(build_store)} :
        /\ build_store[bs[1]].repository_id = rid
        /\ build_store[bs[1]].completed_on # NoMoment
        /\ ~Earlier(build_store[bs[1]].completed_on, from)
        /\ to # NoMoment => Earlier(build_store[bs[1]].completed_on, to)
        /\ build_store[bs[1]].steps[bs[2]].duration_seconds # NoDuration}

\* the seconds claimed for the repository: the weighted sum of its steps in
\* the window unless there is no such step or the sum is zero, and then the
\* sum of the durations of its builds in the window
ClaimedSeconds(rid, from, to) ==
    LET weight(bs) ==
            LET s == build_store[bs[1]].steps[bs[2]]
            IN  s.duration_seconds * (IF s.size_factor = NullSizeFactor THEN 1 ELSE s.size_factor)
        RECURSIVE Weighted(_)
        Weighted(set) == IF set = {} THEN 0
                         ELSE LET x == CHOOSE y \in set : TRUE
                              IN  weight(x) + Weighted(set \ {x})
        timed == {i \in 1..Len(build_store) :
                     /\ build_store[i].repository_id = rid
                     /\ build_store[i].completed_on # NoMoment
                     /\ ~Earlier(build_store[i].completed_on, from)
                     /\ to # NoMoment => Earlier(build_store[i].completed_on, to)
                     /\ build_store[i].duration_seconds # NoDuration}
        RECURSIVE Pipeline(_)
        Pipeline(set) == IF set = {} THEN 0
                         ELSE LET x == CHOOSE y \in set : TRUE
                              IN  build_store[x].duration_seconds + Pipeline(set \ {x})
        weighted == Weighted(WindowSteps(rid, from, to))
    IN  IF WindowSteps(rid, from, to) # {} /\ weighted # 0 THEN weighted ELSE Pipeline(timed)

\* C17: the minutes reported for a repository, by the rolling and by the
\* 28th-window calculation, are the step-weighted sum over the window
\* whenever that sum is positive, and the pipeline-level sum only when the
\* weighted sum is zero or absent; the total of the 28th-window calculation
\* is the sum of its by_repo values.
C17_StepWeightedMinutes ==
    /\ minutes28.returned =>
          LET from == Midnight(minutes28.period_start)
              to == Midnight(minutes28.period_end_excl)
          IN  /\ \A rid \in DOMAIN minutes28.by_repo :
                    minutes28.by_repo[rid] = ClaimedSeconds(rid, from, to)
              /\ minutes28.total_seconds
                    = SumValues(minutes28.by_repo, DOMAIN minutes28.by_repo)
    /\ minutes.returned =>
          /\ \A rid \in DOMAIN minutes.by_repo :
                minutes.by_repo[rid] = ClaimedSeconds(rid, minutes.cutoff_date, NoMoment)
          /\ minutes.repository_id # NoRepo =>
                minutes.total_seconds
                   = ClaimedSeconds(minutes.repository_id, minutes.cutoff_date, NoMoment)

(***************************************************************************)
(* The join key under log noise                                            *)
(***************************************************************************)
\* step logs of one keyword line each: two that differ in an absolute path,
\* two in a hex address, two in a timestamp, and one with another error
NoiseLogs ==
    { <<"E", "R", "R", "O", "R", " ", "i", "n", " ", "/", "s", "r", "v", "/", "a", "/", "x", ".", "p", "y">>,
      <<"E", "R", "R", "O", "R", " ", "i", "n", " ", "/", "h", "o", "m", "e", "/", "b", "/", "x", ".", "p", "y">>,
      <<"F", "A", "T", "A", "L", " ", "a", "t", " ", "0", "x", "1", "f">>,
      <<"F", "A", "T", "A", "L", " ", "a", "t", " ", "0", "x", "2", "a">>,
      <<"2", "0", "2", "4", "-", "0", "1", "-", "0", "1", " ", "1", "0", ":", "0", "0", ":", "0", "0", " ", "E", "R", "R", "O", "R", " ", "b", "o", "o", "m">>,
      <<"2", "0", "2", "4", "-", "0", "2", "-", "0", "2", "T", "1", "1", ":", "1", "1", ":", "1", "1", " ", "E", "R", "R", "O", "R", " ", "b", "o", "o", "m">>,
      <<"E", "R", "R", "O", "R", " ", "b", "a", "n", "g">> }

\* collect_builds for a repository whose provider lists one new run with one
\* FAILED step that has no structured error message and one of these logs
CollectNoisyBuilds ==
    /\ Len(failures) < MaxFailures
    /\ \E repo \in Repos, log \in NoiseLogs :
          failures' = Append(failures, NewBuildFailure(repo, EmptyStr, [log |-> log, fetch |-> "ok"], Len(failures) + 1))
    /\ other_repos' = NotAsked
    /\ UNCHANGED <<diagVars, patternVars, analyzerVars, detectorVars, wasteVars, windowVars, collectorVars, enrichVars, latestVars, overlapVars>>

\* a text with its absolute paths, timestamps and hex addresses blanked
WithoutNoise(text) ==
    Lower(Strip(SubHex(SubBracketedDates(SubTimestamps(SubPaths(text, 1), 1, EmptyStr), 1), 1)))

\* C21: two stored failures have the same error_pattern exactly when the
\* logs their signatures were taken from are equal once timestamps, absolute
\* file paths and hex addresses are blanked: noise never changes the join
\* key, and different error lines always do.
C21_PatternStableUnderNoise ==
    \A i, j \in 1..Len(failures) :
       (WithoutNoise(SignatureInput(failures[i])) = WithoutNoise(SignatureInput(failures[j])))
       <=> (failures[i].error_pattern = failures[j].error_pattern)

(***************************************************************************)
(* Durations of zero seconds                                               *)
(***************************************************************************)
\* builds that took no time (started_on = completed_on), builds whose step
\* took no time, and builds that took time
ZeroKinds ==
    { [state |-> "SUCCESSFUL", duration_seconds |-> 0, step_duration |-> 0],
      [state |-> "SUCCESSFUL", duration_seconds |-> 100, step_duration |-> 0],
      [state |-> "SUCCESSFUL", duration_seconds |-> 100, step_duration |-> 40] }

\* C30: a regression percentage is computed only against a strictly
\* positive baseline median, for stored durations of 0 as well, so every
\* regression_percent emitted is a finite positive number.
C30_RatiosAreWellDefined ==
    /\ regression.found =>
          regression.percent_den > 0 /\ regression.percent_num > 0
    /\ step_regression.found =>
          step_regression.percent_den > 0 /\ step_regression.percent_num > 0

(***************************************************************************)
(* The matches of a stored failure (PatternMatcher.find_matching_failures) *)
(***************************************************************************)
\* find_matching_failures(error_message): the ids of the first ten stored
\* failures whose error_pattern is the normalised message; none for a
\* message without a pattern
FindMatchingFailures(error_message) ==
    LET normalized == NormalizeErrorMessage(error_message)
        RECURSIVE Ascending(_)
        Ascending(ids) == IF ids = {} THEN <<>>
                          ELSE LET first == CHOOSE i \in ids : \A j \in ids : i <= j
                               IN  <<first>> \o Ascending(ids \ {first})
    IN  IF normalized = EmptyStr THEN <<>>
        ELSE Prefix(Ascending({i \in 1..Len(failures) : failures[i].error_pattern = normalized}),
                    FindLimit)

\* C28: every stored failure that shares its error_pattern with fewer than
\* ten failures is among the matches of its own error_message; that is, the
\* pattern the matcher derives from the message of a stored failure is the
\* error_pattern stored on it.
C28_FailureMatchesItself ==
    \A f \in 1..Len(failures) :
       Cardinality({i \in 1..Len(failures) :
                       failures[i].error_pattern = failures[f].error_pattern}) < FindLimit
       => /\ \E k \in 1..Len(FindMatchingFailures(failures[f].error_message)) :
                FindMatchingFailures(failures[f].error_message)[k] = f
          /\ NormalizeErrorMessage(failures[f].error_message) = failures[f].error_pattern

(***************************************************************************)
(* Latest-failure analysis (ErrorAnalyzer.analyze_latest_failure)          *)
(***************************************************************************)
MaxAnalysedSteps == 2

\* the repository analysed (repo.id)
AnalysedRepo == 1

\* a step of the latest run: its state, its log and whether fetching the
\* log raises
AnalysedSteps ==
    [state : {"SUCCESSFUL", "FAILED", "ERROR"},
     log : { <<"E", "R", "R", "O", "R", " ", "b", "o", "o", "m">>, <<"F", "A", "T", "A", "L", " ", "o", "u", "t", " ", "o", "f", " ", "m", "e", "m", "o", "r", "y">> },
     fetch : {"ok"}]
    \cup [state : {"SUCCESSFUL", "FAILED", "ERROR"},
          log : { <<"E", "R", "R", "O", "R", " ", "b", "o", "o", "m">> },
          fetch : {"raises"}]

\* What the provider holds for the repository analysed: whether the
\* repository is registered, what listing its latest run gives ("raises": the
\* request fails, "none": no run, "listed": one run), the run's result name
\* (None while the run is in progress), its uuid, whether listing its steps
\* raises, and its steps.
LatestRuns ==
    [known : {TRUE}, pipelines : {"listed"},
     result : {<<"SUCCESSFUL">>, <<"FAILED">>, <<"ERROR">>, None},
     uuid : {EmptyStr, <<"{", "p", "1", "}">>},
     steps_fetch : {"ok", "raises"},
     steps : UNION {[1..n -> AnalysedSteps] : n \in 0..MaxAnalysedSteps}]
    \cup [known : BOOLEAN, pipelines : {"raises", "none", "listed"},
          result : {<<"FAILED">>}, uuid : {<<"{", "p", "1", "}">>},
          steps_fetch : {"ok"}, steps : {<<>>}]

NoRun ==
    [known |-> FALSE, pipelines |-> "none", result |-> None, uuid |-> EmptyStr,
     steps_fetch |-> "ok", steps |-> <<>>]

\* BitbucketClient.get_pipelines(repo_slug, limit=1): a failed request is
\* caught and gives the empty list
GetPipelines(run) == IF run.pipelines = "listed" THEN <<run>> ELSE <<>>

\* result in ("FAILED", "ERROR")
FailedResults == {<<"FAILED">>, <<"ERROR">>}

\* get_latest_failed_pipeline: the latest run if it failed, else nothing
GetLatestFailedPipeline(run) ==
    LET pipelines == GetPipelines(run)
    IN  IF pipelines = <<>> THEN <<>>
        ELSE IF pipelines[1].result \in FailedResults THEN pipelines ELSE <<>>

\* get_failed_step_logs of the run: one entry for each FAILED or ERROR step,
\* in the order of the steps; nothing when listing the steps raises
FailedStepLogs(run) ==
    IF run.steps_fetch = "raises" THEN <<>>
    ELSE LET failed == SelectSeq(run.steps, LAMBDA s : s.state \in {"FAILED", "ERROR"})
         IN  [i \in 1..Len(failed) |-> FailedStepEntry(failed[i])]

\* the last failed step as the representative
LastFailedStep(failed_steps) == failed_steps[Len(failed_steps)]

\* failed_steps[0]: the first failed step is the representative
PrimaryFailedStep(failed_steps) == failed_steps[1]

\* the value of analysis before the call
NotAnalysed ==
    [returned |-> FALSE, status |-> "None", message |-> "", failed_steps |-> <<>>,
     error_signature |-> EmptyStr, signature_hash |-> EmptyStr,
     other_repos |-> <<>>, calls |-> {}]

\* analyze_latest_failure: the dictionary returned (status "None": the call
\* returns None) and the requests and queries made on the way
AnalyzeLatestFailure(run) ==
    LET pipeline == GetLatestFailedPipeline(run)
        failed_steps == FailedStepLogs(run)
        primary_signature_hash == PrimaryFailedStep(failed_steps).signature_hash
    IN  IF ~run.known
        THEN [NotAnalysed EXCEPT !.returned = TRUE]
        ELSE IF pipeline = <<>>
        THEN [NotAnalysed EXCEPT !.returned = TRUE, !.status = "OK",
                                 !.message = "Latest pipeline succeeded",
                                 !.calls = {"get_pipelines"}]
        ELSE IF run.uuid = EmptyStr
        THEN [NotAnalysed EXCEPT !.returned = TRUE, !.status = "ERROR",
                                 !.message = "Pipeline UUID not found",
                                 !.calls = {"get_pipelines"}]
        ELSE IF failed_steps = <<>>
        THEN [NotAnalysed EXCEPT !.returned = TRUE, !.status = "FAILED",
                                 !.message = "No failed steps found, but pipeline is failed",
                                 !.calls = {"get_pipelines", "get_pipeline_steps"}]
        ELSE [returned |-> TRUE, status |-> "FAILED", message |-> "",
              failed_steps |-> failed_steps,
              error_signature |-> PrimaryFailedStep(failed_steps).error_signature,
              signature_hash |-> primary_signature_hash,
              other_repos |-> FindOtherReposWithError(AnalysedRepo, primary_signature_hash),
              calls |-> {"get_pipelines", "get_pipeline_steps", "get_pipeline_step_log",
                         "find_other_repos_with_error"}]

\* a call of analyze_latest_failure for the repository
CallAnalyzeLatestFailure ==
    /\ ~analysis.returned
    /\ analysis' = AnalyzeLatestFailure(latest_run)
    /\ UNCHANGED <<latest_run, diagVars, patternVars, analyzerVars, storeVars, detectorVars, wasteVars, windowVars, collectorVars, enrichVars, overlapVars>>

\* the failures of other repositories stored before the analysis
StoredFailures ==
    { <<>>,
      <<NewBuildFailure(2, EmptyStr, [log |-> <<"E", "R", "R", "O", "R", " ", "b", "o", "o", "m">>, fetch |-> "ok"], 1)>> }

(***************************************************************************)
(* Claims about the latest-failure analysis                                *)
(***************************************************************************)
\* the first step of the run whose state is FAILED or ERROR
FirstFailedStep(run) ==
    run.steps[CHOOSE i \in 1..Len(run.steps) :
                 /\ run.steps[i].state \in {"FAILED", "ERROR"}
                 /\ \A j \in 1..(i - 1) : run.steps[j].state \notin {"FAILED", "ERROR"}]

\* C22: for a registered repository whose latest run is listed, a result
\* other than FAILED and ERROR gives status "OK" and no request after the
\* listing of the run (no step list, no log, no cross-repository query); a
\* FAILED or ERROR result with at least one failed step found gives status
\* "FAILED" with the signature and the hash of the first failed step.
C22_GreenShortCircuit ==
    (analysis.returned /\ latest_run.known /\ latest_run.pipelines = "listed") =>
       /\ latest_run.result \notin {<<"FAILED">>, <<"ERROR">>} =>
             analysis.status = "OK" /\ analysis.calls = {"get_pipelines"}
       /\ (latest_run.result \in {<<"FAILED">>, <<"ERROR">>} /\ analysis.failed_steps # <<>>) =>
             /\ analysis.status = "FAILED"
             /\ analysis.error_signature = FailedStepEntry(FirstFailedStep(latest_run)).error_signature
             /\ analysis.signature_hash = FailedStepEntry(FirstFailedStep(latest_run)).signature_hash

\* an ERROR run analysed whose first step succeeded and whose second step
\* failed, with a signature the cross-repository query is asked for
C22_Witness ==
    /\ analysis.returned /\ analysis.status = "FAILED"
    /\ latest_run.result = <<"ERROR">>
    /\ Len(latest_run.steps) = 2 /\ Len(analysis.failed_steps) = 1
    /\ latest_run.steps[1].state = "SUCCESSFUL"
    /\ analysis.signature_hash # EmptyStr
    /\ "find_other_repos_with_error" \in analysis.calls

\* C29: status "OK" is reported only when a latest run was fetched and its
\* result is neither FAILED nor ERROR: never after a provider error while
\* listing the run, and never for an empty run list.
C29_OkOnlyForAFetchedGreenRun ==
    (analysis.returned /\ analysis.status = "OK") =>
       /\ latest_run.pipelines = "listed"
       /\ latest_run.result \notin {<<"FAILED">>, <<"ERROR">>}

(***************************************************************************)
(* Polls of runs that change at the provider                               *)
(***************************************************************************)
\* What the provider may answer for run u in a poll: the run in progress
\* with a step in progress; the run failed with a step list that cannot be
\* fetched; the run failed with two FAILED steps, the log of the first of
\* which cannot be fetched, and a SUCCESSFUL step; the run successful.
PolledRuns(u) ==
    LET step(state, log_fetch, log) ==
            [size |-> [kind |-> "absent", int |-> 0, text |-> EmptyStr], state |-> state,
             env |-> "", completed_on |-> NoTime, malformed |-> FALSE,
             message |-> EmptyStr, log_fetch |-> log_fetch, log |-> log]
        pipeline(state, at, steps_raise, steps_data) ==
            [uuid |-> u, commit_hash |-> u, completed_on |-> at, malformed |-> FALSE,
             state |-> state, steps_raise |-> steps_raise, steps |-> steps_data]
    IN  { pipeline("IN_PROGRESS", NoTime, FALSE, <<step("IN_PROGRESS", "ok", EmptyStr)>>),
          pipeline("FAILED", u, TRUE, <<>>),
          pipeline("FAILED", u, FALSE,
                   <<step("FAILED", "raises", <<"E", "R", "R", "O", "R", " ", "b", "o", "o", "m">>),
                     step("FAILED", "ok", <<"F", "A", "T", "A", "L", " ", "o", "u", "t", " ", "o", "f", " ", "m", "e", "m", "o", "r", "y", " ", "a", "t", " ", "0", "x", "1", "f">>),
                     step("SUCCESSFUL", "ok", <<"o", "k">>)>>),
          pipeline("SUCCESSFUL", u, FALSE, <<step("SUCCESSFUL", "ok", <<"o", "k">>)>>) }

\* an invocation of collect_builds for a repository: the provider lists at
\* most two runs of the repository (or one run twice), each as it is at the
\* time of the poll
PollBuilds ==
    /\ \E repo \in Repos :
          LET polled == UNION {PolledRuns(u) : u \in RunsOf(repo)}
          IN  \E listed \in {<<>>} \cup {<<p>> : p \in polled}
                                 \cup {pq \in polled \X polled :
                                          pq[2] = pq[1] \/ pq[2].uuid # pq[1].uuid} :
                 /\ session' = CollectBuildsRows(session, repo,
                                  [raises |-> FALSE, data |-> listed]).db
                 /\ last_collect' = [NotCollected EXCEPT
                                        !.kind = "builds", !.repo = repo,
                                        !.listed = [i \in 1..Len(listed) |-> listed[i].uuid],
                                        !.outcome = [i \in 1..Len(listed) |-> listed[i].state]]
    /\ UNCHANGED <<provider, diagVars, patternVars, analyzerVars, storeVars, detectorVars,
                   wasteVars, windowVars, enrichVars, latestVars, overlapVars>>

(***************************************************************************)
(* Claims about the rows of an ingested run                                *)
(***************************************************************************)
\* the build_steps and the build_failures rows of a build
StepsOfBuild(db, id) == SelectSeq(db.build_steps, LAMBDA row : row.build_id = id)

FailuresOfBuild(db, id) == SelectSeq(db.build_failures, LAMBDA row : row.build_id = id)

\* C23: no collection cycle changes a Build row that exists (its state, its
\* timestamps, any column) nor the BuildStep and BuildFailure rows of that
\* build, whatever the provider answers for the run later: a run first seen
\* in progress, or stored without steps because their fetch failed, keeps
\* the state and the step set it was stored with.
C23_BuildsAreImmutable ==
    [][\A id \in 1..Len(session.builds) :
          /\ Len(session'.builds) >= id
          /\ session'.builds[id] = session.builds[id]
          /\ StepsOfBuild(session', id) = StepsOfBuild(session, id)
          /\ FailuresOfBuild(session', id) = FailuresOfBuild(session, id)]_vars

\* the last poll listed a run as FAILED that is stored IN_PROGRESS, and a run
\* as SUCCESSFUL that is stored FAILED with no steps
C23_Witness ==
    /\ last_collect.kind = "builds"
    /\ last_collect.outcome = <<"FAILED", "SUCCESSFUL">>
    /\ \E i, j \in 1..Len(session.builds) :
          /\ session.builds[i].pipeline_uuid = last_collect.listed[1]
          /\ session.builds[i].state = "IN_PROGRESS"
          /\ session.builds[j].pipeline_uuid = last_collect.listed[2]
          /\ session.builds[j].state = "FAILED"
          /\ StepsOfBuild(session, i) # <<>>
          /\ StepsOfBuild(session, j) = <<>>

(***************************************************************************)
(* Log fetches that fail                                                   *)
(***************************************************************************)
\* the latest run as get_pipelines lists it: FAILED, its failed steps with
\* their logs, then a SUCCESSFUL step
FailedRun(failed) ==
    LET step(state, log_fetch, log) ==
            [size |-> [kind |-> "absent", int |-> 0, text |-> EmptyStr], state |-> state,
             env |-> "", completed_on |-> NoTime, malformed |-> FALSE,
             message |-> EmptyStr, log_fetch |-> log_fetch, log |-> log]
    IN  [uuid |-> 1, commit_hash |-> 1, completed_on |-> 1, malformed |-> FALSE,
         state |-> "FAILED", steps_raise |-> FALSE,
         steps |-> [i \in 1..Len(failed) |-> step("FAILED", failed[i].fetch, failed[i].log)]
                   \o <<step("SUCCESSFUL", "ok", <<"E", "R", "R", "O", "R", " ", "n", "o", "t", " ", "s", "t", "o", "r", "e", "d">>)>>]

\* collect_builds of the repository when the provider lists that run
CollectFailedRun ==
    /\ session = EmptyDb
    /\ session' = CollectBuildsRows(session, AnalysedRepo,
                     [raises |-> FALSE, data |-> <<FailedRun(step_logs)>>]).db
    /\ last_collect' = [NotCollected EXCEPT !.kind = "builds", !.repo = AnalysedRepo,
                                            !.listed = <<FailedRun(step_logs).uuid>>]
    /\ UNCHANGED <<provider, diagVars, patternVars, analyzerVars, storeVars, detectorVars,
                   wasteVars, windowVars, enrichVars, latestVars, overlapVars>>

\* C24: a log fetch that raises costs its step the excerpt and nothing
\* else.  collect_builds stores every step of the run and a BuildFailure
\* for every FAILED step; the step whose log fetch raised has no excerpt and
\* its failure has the empty message.  get_failed_step_logs reports every
\* failed step, the one whose fetch raised with the empty signature and the
\* empty hash.  A stored log_excerpt has at most 4000 characters and is on a
\* FAILED step.
C24_LogFetchFailureIsIsolated ==
    /\ session # EmptyDb =>
          /\ Len(session.build_steps) = Len(step_logs) + 1
          /\ Len(session.build_failures) = Len(step_logs)
          /\ \A i \in 1..Len(step_logs) :
                /\ session.build_steps[i].state = "FAILED"
                /\ step_logs[i].fetch = "raises" =>
                      /\ session.build_steps[i].log_excerpt = None
                      /\ session.build_failures[i].error_message = EmptyStr
                /\ step_logs[i].fetch = "ok" =>
                      session.build_steps[i].log_excerpt
                          = IF CollectorLogExcerpt(step_logs[i].log) = EmptyStr THEN None
                            ELSE CollectorLogExcerpt(step_logs[i].log)
          /\ \A i \in 1..Len(session.build_steps) :
                session.build_steps[i].log_excerpt # None =>
                   /\ session.build_steps[i].state = "FAILED"
                   /\ Len(session.build_steps[i].log_excerpt) <= LogExcerptMax
    /\ failed_steps_data.returned =>
          /\ Len(failed_steps_data.steps) = Len(step_logs)
          /\ \A i \in 1..Len(step_logs) :
                /\ step_logs[i].fetch = "raises" =>
                      /\ failed_steps_data.steps[i].error_signature = EmptyStr
                      /\ failed_steps_data.steps[i].signature_hash = EmptyStr
                /\ step_logs[i].fetch = "ok" =>
                      failed_steps_data.steps[i].log_text = step_logs[i].log

\* the run is collected and analysed; the log fetch of its first failed step
\* raised and its second failed step has an excerpt and a signature
C24_Witness ==
    /\ session # EmptyDb /\ failed_steps_data.returned
    /\ Len(step_logs) = 2
    /\ step_logs[1].fetch = "raises" /\ step_logs[1].log # EmptyStr
    /\ step_logs[2].fetch = "ok"
    /\ session.build_steps[2].log_excerpt # None
    /\ failed_steps_data.steps[2].signature_hash # EmptyStr
    /\ Len(session.build_failures) = 2

\* C27: every BuildFailure stored by collect_builds carries the id of a
\* BuildStep row of its own build whose state is FAILED: the step it was
\* created for.
C27_FailureReferencesItsStep ==
    \A i \in 1..Len(session.build_failures) :
       LET failure == session.build_failures[i]
       IN  /\ failure.step_id \in 1..Len(session.build_steps)
           /\ session.build_steps[failure.step_id].build_id = failure.build_id
           /\ session.build_steps[failure.step_id].state = "FAILED"

Cycles == {"scheduled", "on_demand"}

\* the tables a cycle reads and then inserts into, in the order of the
\* cycle: collect_builds, collect_pull_requests, save_diagnostics
Tables == <<"builds", "pull_requests", "diagnostics">>

\* __table_args__ = (UniqueConstraint('repository_id', 'pr_id'),): the only
\* natural key declared unique is the pull request's
HasUniqueConstraint(table) == table = "pull_requests"

NothingCommitted == [t \in {Tables[i] : i \in 1..Len(Tables)} |-> 0]

\* a cycle before its first query: the table it is at, the step it is at,
\* what its query returned and whether its session holds a row to insert
NotStarted ==
    [c \in Cycles |-> [table |-> 1, pc |-> "query", existing |-> FALSE, pending |-> FALSE]]

\* existing = self.db.query(...).filter(key).first(): the rows committed,
\* by this cycle or the other
QueryExisting(c) ==
    /\ cycle[c].pc = "query"
    /\ cycle' = [cycle EXCEPT ![c].pc = "add",
                              ![c].existing = committed[Tables[cycle[c].table]] > 0]
    /\ UNCHANGED <<committed, diagVars, patternVars, analyzerVars, storeVars, detectorVars,
                   wasteVars, windowVars, collectorVars, enrichVars, latestVars>>

\* if not existing: self.db.add(row)
AddIfNotExisting(c) ==
    /\ cycle[c].pc = "add"
    /\ cycle' = [cycle EXCEPT ![c].pc = "commit", ![c].pending = ~cycle[c].existing]
    /\ UNCHANGED <<committed, diagVars, patternVars, analyzerVars, storeVars, detectorVars,
                   wasteVars, windowVars, collectorVars, enrichVars, latestVars>>

\* self.db.commit(): the pending row is inserted unless a UNIQUE constraint
\* rejects it, which raises and ends the cycle; then the cycle goes on with
\* the next table
CommitRows(c) ==
    /\ cycle[c].pc = "commit"
    /\ LET table == Tables[cycle[c].table]
           rejected == /\ cycle[c].pending /\ HasUniqueConstraint(table)
                       /\ committed[table] > 0
       IN  /\ committed' = IF cycle[c].pending /\ ~rejected
                           THEN [committed EXCEPT ![table] = @ + 1] ELSE committed
           /\ cycle' = [cycle EXCEPT
                           ![c] = IF rejected
                                  THEN [@ EXCEPT !.pc = "raised", !.pending = FALSE]
                                  ELSE IF cycle[c].table = Len(Tables)
                                  THEN [@ EXCEPT !.pc = "done", !.pending = FALSE]
                                  ELSE [table |-> cycle[c].table + 1, pc |-> "query",
                                        existing |-> FALSE, pending |-> FALSE]]
    /\ UNCHANGED <<diagVars, patternVars, analyzerVars, storeVars, detectorVars,
                   wasteVars, windowVars, collectorVars, enrichVars, latestVars>>

\* a step of the scheduled cycle
ScheduledTick ==
    QueryExisting("scheduled") \/ AddIfNotExisting("scheduled") \/ CommitRows("scheduled")

\* a step of the cycle triggered on demand
OnDemandTrigger ==
    QueryExisting("on_demand") \/ AddIfNotExisting("on_demand") \/ CommitRows("on_demand")

\* C25: however the read-then-insert steps of two overlapping cycles
\* interleave, no table ever holds two rows with the same key: not two Builds
\* of one run identifier, not two PullRequests of one (repository_id, PR
\* number), not two unacknowledged Diagnostics of one (repository_id, type,
\* title).
C25_NoDuplicateRows ==
    \A i \in 1..Len(Tables) : committed[Tables[i]] <= 1

(***************************************************************************)
(* The specifications: one per component, the state of the other           *)
(* components empty and left alone.                                         *)
(***************************************************************************)
\* the diagnostics table is empty and no detector reports a finding
Init ==
    /\ findings = {}
    /\ diagnostics = <<>>
    /\ error_msg = EmptyStr
    /\ pattern = None
    /\ step_logs = <<>>
    /\ failed_steps_data = NotReturned
    /\ failures = <<>>
    /\ other_repos = NotAsked
    /\ builds = <<>>
    /\ cutoff_date = 1
    /\ regression = NotDetected
    /\ step_regression = NotDetected
    /\ cross_regression = NotDetected
    /\ steps = <<>>
    /\ waste_findings = NotAnalyzed
    /\ reference_date = NoDate
    /\ minutes28 = NotCalculated
    /\ build_store = <<>>
    /\ minutes = NotCalculatedRolling
    /\ session = EmptyDb
    /\ last_collect = NotCollected
    /\ provider = <<>>
    /\ enrichment = NotEnhanced
    /\ latest_run = NoRun
    /\ analysis = NotAnalysed
    /\ committed = NothingCommitted
    /\ cycle = NotStarted

Next == DataChange \/ RunDiagnostics \/ Acknowledge

Spec == Init /\ [][Next]_vars

\* a message is about to be normalized
InitPattern ==
    /\ findings = {}
    /\ diagnostics = <<>>
    /\ error_msg \in Messages
    /\ pattern = None
    /\ step_logs = <<>>
    /\ failed_steps_data = NotReturned
    /\ failures = <<>>
    /\ other_repos = NotAsked
    /\ builds = <<>>
    /\ cutoff_date = 1
    /\ regression = NotDetected
    /\ step_regression = NotDetected
    /\ cross_regression = NotDetected
    /\ steps = <<>>
    /\ waste_findings = NotAnalyzed
    /\ reference_date = NoDate
    /\ minutes28 = NotCalculated
    /\ build_store = <<>>
    /\ minutes = NotCalculatedRolling
    /\ session = EmptyDb
    /\ last_collect = NotCollected
    /\ provider = <<>>
    /\ enrichment = NotEnhanced
    /\ latest_run = NoRun
    /\ analysis = NotAnalysed
    /\ committed = NothingCommitted
    /\ cycle = NotStarted

NextPattern == CallNormalizeErrorMessage

SpecPattern == InitPattern /\ [][NextPattern]_vars

\* the latest run has failed steps, whose logs are about to be fetched
InitAnalyzer ==
    /\ findings = {}
    /\ diagnostics = <<>>
    /\ error_msg = EmptyStr
    /\ pattern = None
    /\ step_logs \in UNION {[1..n -> FailedSteps] : n \in 1..MaxFailedSteps}
    /\ failed_steps_data = NotReturned
    /\ failures = <<>>
    /\ other_repos = NotAsked
    /\ builds = <<>>
    /\ cutoff_date = 1
    /\ regression = NotDetected
    /\ step_regression = NotDetected
    /\ cross_regression = NotDetected
    /\ steps = <<>>
    /\ waste_findings = NotAnalyzed
    /\ reference_date = NoDate
    /\ minutes28 = NotCalculated
    /\ build_store = <<>>
    /\ minutes = NotCalculatedRolling
    /\ session = EmptyDb
    /\ last_collect = NotCollected
    /\ provider = <<>>
    /\ enrichment = NotEnhanced
    /\ latest_run = NoRun
    /\ analysis = NotAnalysed
    /\ committed = NothingCommitted
    /\ cycle = NotStarted

NextAnalyzer == GetFailedStepLogs

SpecAnalyzer == InitAnalyzer /\ [][NextAnalyzer]_vars

\* no failure is stored yet
InitStore ==
    /\ findings = {}
    /\ diagnostics = <<>>
    /\ error_msg = EmptyStr
    /\ pattern = None
    /\ step_logs = <<>>
    /\ failed_steps_data = NotReturned
    /\ failures = <<>>
    /\ other_repos = NotAsked
    /\ builds = <<>>
    /\ cutoff_date = 1
    /\ regression = NotDetected
    /\ step_regression = NotDetected
    /\ cross_regression = NotDetected
    /\ steps = <<>>
    /\ waste_findings = NotAnalyzed
    /\ reference_date = NoDate
    /\ minutes28 = NotCalculated
    /\ build_store = <<>>
    /\ minutes = NotCalculatedRolling
    /\ session = EmptyDb
    /\ last_collect = NotCollected
    /\ provider = <<>>
    /\ enrichment = NotEnhanced
    /\ latest_run = NoRun
    /\ analysis = NotAnalysed
    /\ committed = NothingCommitted
    /\ cycle = NotStarted

NextStore == CollectBuilds \/ CallFindOtherRepos

SpecStore == InitStore /\ [][NextStore]_vars

\* a build history of three runs and a cutoff date anywhere in it
InitDetector ==
    /\ findings = {}
    /\ diagnostics = <<>>
    /\ error_msg = EmptyStr
    /\ pattern = None
    /\ step_logs = <<>>
    /\ failed_steps_data = NotReturned
    /\ failures = <<>>
    /\ other_repos = NotAsked
    /\ \E a, b, c \in BuildKinds, i, j, k \in RunLengths :
          builds = History(Run(a, i) \o Run(b, j) \o Run(c, k))
    /\ cutoff_date \in 1..(Len(builds) + 1)
    /\ regression = NotDetected
    /\ step_regression = NotDetected
    /\ cross_regression = NotDetected
    /\ steps = <<>>
    /\ waste_findings = NotAnalyzed
    /\ reference_date = NoDate
    /\ minutes28 = NotCalculated
    /\ build_store = <<>>
    /\ minutes = NotCalculatedRolling
    /\ session = EmptyDb
    /\ last_collect = NotCollected
    /\ provider = <<>>
    /\ enrichment = NotEnhanced
    /\ latest_run = NoRun
    /\ analysis = NotAnalysed
    /\ committed = NothingCommitted
    /\ cycle = NotStarted

NextDetector == CallDetectBuildDurationRegression \/ CallDetectStepRegression

SpecDetector == InitDetector /\ [][NextDetector]_vars

\* a step table of three runs
InitWaste ==
    /\ findings = {}
    /\ diagnostics = <<>>
    /\ error_msg = EmptyStr
    /\ pattern = None
    /\ step_logs = <<>>
    /\ failed_steps_data = NotReturned
    /\ failures = <<>>
    /\ other_repos = NotAsked
    /\ builds = <<>>
    /\ cutoff_date = 1
    /\ regression = NotDetected
    /\ step_regression = NotDetected
    /\ cross_regression = NotDetected
    /\ \E a, b, c \in StepKinds, i, j, k \in StepRunLengths :
          steps = Run(a, i) \o Run(b, j) \o Run(c, k)
    /\ waste_findings = NotAnalyzed
    /\ reference_date = NoDate
    /\ minutes28 = NotCalculated
    /\ build_store = <<>>
    /\ minutes = NotCalculatedRolling
    /\ session = EmptyDb
    /\ last_collect = NotCollected
    /\ provider = <<>>
    /\ enrichment = NotEnhanced
    /\ latest_run = NoRun
    /\ analysis = NotAnalysed
    /\ committed = NothingCommitted
    /\ cycle = NotStarted

NextWaste == CallDetectResourceWaste

SpecWaste == InitWaste /\ [][NextWaste]_vars

\* any reference date, and a store of at most one build around a boundary
InitWindow ==
    /\ findings = {}
    /\ diagnostics = <<>>
    /\ error_msg = EmptyStr
    /\ pattern = None
    /\ step_logs = <<>>
    /\ failed_steps_data = NotReturned
    /\ failures = <<>>
    /\ other_repos = NotAsked
    /\ builds = <<>>
    /\ cutoff_date = 1
    /\ regression = NotDetected
    /\ step_regression = NotDetected
    /\ cross_regression = NotDetected
    /\ steps = <<>>
    /\ waste_findings = NotAnalyzed
    /\ reference_date \in Dates
    /\ minutes28 = NotCalculated
    /\ build_store \in BoundaryStores
    /\ minutes = NotCalculatedRolling
    /\ session = EmptyDb
    /\ last_collect = NotCollected
    /\ provider = <<>>
    /\ enrichment = NotEnhanced
    /\ latest_run = NoRun
    /\ analysis = NotAnalysed
    /\ committed = NothingCommitted
    /\ cycle = NotStarted

NextWindow == CallCalculateBuildMinutes28To28

SpecWindow == InitWindow /\ [][NextWindow]_vars

\* the repositories synced and nothing collected
InitCollector ==
    /\ findings = {}
    /\ diagnostics = <<>>
    /\ error_msg = EmptyStr
    /\ pattern = None
    /\ step_logs = <<>>
    /\ failed_steps_data = NotReturned
    /\ failures = <<>>
    /\ other_repos = NotAsked
    /\ builds = <<>>
    /\ cutoff_date = 1
    /\ regression = NotDetected
    /\ step_regression = NotDetected
    /\ cross_regression = NotDetected
    /\ steps = <<>>
    /\ waste_findings = NotAnalyzed
    /\ reference_date = NoDate
    /\ minutes28 = NotCalculated
    /\ build_store = <<>>
    /\ minutes = NotCalculatedRolling
    /\ session = EmptyDb
    /\ last_collect = NotCollected
    /\ provider \in ProviderWorlds
    /\ enrichment = NotEnhanced
    /\ latest_run = NoRun
    /\ analysis = NotAnalysed
    /\ committed = NothingCommitted
    /\ cycle = NotStarted

NextCollector == CallCollectBuilds \/ CallCollectDeployments \/ CallCollectAll

SpecCollector == InitCollector /\ [][NextCollector]_vars

InitEnrich ==
    /\ findings = {}
    /\ diagnostics = <<>>
    /\ error_msg = EmptyStr
    /\ pattern = None
    /\ step_logs = <<>>
    /\ failed_steps_data = NotReturned
    /\ failures = <<>>
    /\ other_repos = NotAsked
    /\ builds = <<>>
    /\ cutoff_date = 1
    /\ regression = NotDetected
    /\ step_regression = NotDetected
    /\ cross_regression = NotDetected
    /\ steps = <<>>
    /\ waste_findings = NotAnalyzed
    /\ reference_date = NoDate
    /\ minutes28 = NotCalculated
    /\ build_store = <<>>
    /\ minutes = NotCalculatedRolling
    /\ session = EmptyDb
    /\ last_collect = NotCollected
    /\ provider = <<>>
    /\ enrichment \in
          LET texts == {EmptyStr, <<" ">>, <<".">>, <<"f", "i", "x">>,
                        <<" ", "f", "i", "x", ".", "g", "o", " ">>}
              replies ==
                  {[kind |-> "raises", status |-> 0, body |-> "none", text |-> EmptyStr]}
                  \cup {[kind |-> "response", status |-> s, body |-> "object", text |-> EmptyStr] :
                           s \in {500, 503}}
                  \cup {[kind |-> "response", status |-> 200, body |-> b, text |-> EmptyStr] :
                           b \in {"malformed", "object", "empty_list", "list_of_text",
                                  "null_text"}}
                  \cup {[kind |-> "response", status |-> 200, body |-> "text", text |-> t] :
                           t \in texts}
              all_settings ==
                  {[ai_provider |-> p, use_ai_suggestions |-> u, openai_api_key |-> k] :
                     p \in {"none", "huggingface", "openai", "other"}, u \in BOOLEAN,
                     k \in BOOLEAN}
          IN  {[NotEnhanced EXCEPT !.settings = s, !.finding = f, !.commit_hash = c,
                                   !.reply = r] :
                 s \in all_settings, f \in FindingUniverse,
                 c \in {None, <<"a", "b", "c">>}, r \in replies}
    /\ latest_run = NoRun
    /\ analysis = NotAnalysed
    /\ committed = NothingCommitted
    /\ cycle = NotStarted

NextEnrich == CallCreateDiagnostic

SpecEnrich == InitEnrich /\ [][NextEnrich]_vars

\* the stores of the cross-repository search: an old failure of the
\* repository after the last, a failure of repository 1, and up to one more
\* than the limit of the search failures of repository 2, older or more
\* recent than the others
InitSearch ==
    /\ findings = {}
    /\ diagnostics = <<>>
    /\ error_msg = EmptyStr
    /\ pattern = None
    /\ step_logs = <<>>
    /\ failed_steps_data = NotReturned
    /\ failures \in
          LET hashes == <<Sha1Hex(<<"e", "r", "r", "o", "r", " ", "b", "o", "o", "m">>),
                         Sha1Hex(<<"f", "a", "t", "a", "l">>)>>
              failure(repo, h, at) ==
                  [repository_id |-> repo, error_message |-> <<"b", "o", "o", "m">>,
                   error_pattern |-> hashes[h], log_excerpt |-> EmptyStr, occurred_at |-> at]
              store(n, h, first) ==
                  IF first
                  THEN <<failure(NumRepos + 1, h, 1), failure(1, 1, 2)>>
                       \o [i \in 1..n |-> failure(2, 1, 2 + i)]
                  ELSE [i \in 1..n |-> failure(2, 1, i)]
                       \o <<failure(1, 1, n + 1), failure(NumRepos + 1, h, n + 2)>>
          IN  {store(n, h, first) : n \in 0..(FindLimit + 1), h \in 1..2, first \in BOOLEAN}
    /\ other_repos = NotAsked
    /\ builds = <<>>
    /\ cutoff_date = 1
    /\ regression = NotDetected
    /\ step_regression = NotDetected
    /\ cross_regression = NotDetected
    /\ steps = <<>>
    /\ waste_findings = NotAnalyzed
    /\ reference_date = NoDate
    /\ minutes28 = NotCalculated
    /\ build_store = <<>>
    /\ minutes = NotCalculatedRolling
    /\ session = EmptyDb
    /\ last_collect = NotCollected
    /\ provider = <<>>
    /\ enrichment = NotEnhanced
    /\ latest_run = NoRun
    /\ analysis = NotAnalysed
    /\ committed = NothingCommitted
    /\ cycle = NotStarted

NextSearch == CallFindOtherRepos

SpecSearch == InitSearch /\ [][NextSearch]_vars

\* the step histories of the repositories: each repository has up to five
\* builds completed before the cutoff and five after it, with one step of
\* one name
InitCross ==
    /\ findings = {}
    /\ diagnostics = <<>>
    /\ error_msg = EmptyStr
    /\ pattern = None
    /\ step_logs = <<>>
    /\ failed_steps_data = NotReturned
    /\ failures = <<>>
    /\ other_repos = NotAsked
    /\ builds \in
          LET profile(step_name, old, old_duration, new_state, new_duration) ==
                  [step_name |-> step_name, old |-> old, old_duration |-> old_duration,
                   new_state |-> new_state, new_duration |-> new_duration]
              profiles ==
                  {profile("build", MinSamples, 20, "SUCCESSFUL", 24),
                   profile("build", MinSamples, 20, "SUCCESSFUL", 25),
                   profile("build", MinSamples, 20, "SUCCESSFUL", 22),
                   profile("build", MinSamples - 1, 20, "SUCCESSFUL", 40),
                   profile("build", MinSamples, 20, "FAILED", 40),
                   profile("build", MinSamples, 20, "SUCCESSFUL", NoDuration),
                   profile("test", MinSamples, 8, "SUCCESSFUL", 12),
                   profile("test", MinSamples, 20, "SUCCESSFUL", 25)}
              row(repo, p, k) ==
                  [repository_id |-> repo, step_name |-> p.step_name,
                   state |-> IF k = p.old + MinSamples THEN p.new_state ELSE "SUCCESSFUL",
                   duration_seconds |-> 100,
                   step_duration |-> IF k <= p.old THEN p.old_duration
                                     ELSE IF k = p.old + 1 /\ p.new_duration = NoDuration
                                     THEN NoDuration
                                     ELSE IF p.new_duration = NoDuration THEN 40
                                     ELSE p.new_duration,
                   completed_on |-> k + MinSamples - p.old,
                   commit_hash |-> k]
              RECURSIVE rows(_, _)
              rows(ps, repo) ==
                  IF repo > NumRepos THEN <<>>
                  ELSE [k \in 1..(ps[repo].old + MinSamples) |-> row(repo, ps[repo], k)]
                       \o rows(ps, repo + 1)
          IN  {rows(ps, 1) : ps \in [Repos -> profiles]}
    /\ cutoff_date = MinSamples + 1
    /\ regression = NotDetected
    /\ step_regression = NotDetected
    /\ cross_regression = NotDetected
    /\ steps = <<>>
    /\ waste_findings = NotAnalyzed
    /\ reference_date = NoDate
    /\ minutes28 = NotCalculated
    /\ build_store = <<>>
    /\ minutes = NotCalculatedRolling
    /\ session = EmptyDb
    /\ last_collect = NotCollected
    /\ provider = <<>>
    /\ enrichment = NotEnhanced
    /\ latest_run = NoRun
    /\ analysis = NotAnalysed
    /\ committed = NothingCommitted
    /\ cycle = NotStarted

NextCross == CallDetectCrossRepoStepRegression

SpecCross == InitCross /\ [][NextCross]_vars

\* the stores of up to two builds of ten minutes, each of a repository,
\* completed before or within the windows of a 15 March, with one step: of
\* 100 s and size 2, none, of 0 s, of 100 s and the size -2 that
\* collect_builds stores for an int size of -2, of 100 s and no size (and
\* the build without a duration), or without a duration
InitMinutes ==
    /\ findings = {}
    /\ diagnostics = <<>>
    /\ error_msg = EmptyStr
    /\ pattern = None
    /\ step_logs = <<>>
    /\ failed_steps_data = NotReturned
    /\ failures = <<>>
    /\ other_repos = NotAsked
    /\ builds = <<>>
    /\ cutoff_date = 1
    /\ regression = NotDetected
    /\ step_regression = NotDetected
    /\ cross_regression = NotDetected
    /\ steps = <<>>
    /\ waste_findings = NotAnalyzed
    /\ reference_date = [year |-> FirstYear, month |-> 3, day |-> 15]
    /\ minutes28 = NotCalculated
    /\ build_store \in
          LET step(duration, size) == <<[duration_seconds |-> duration, size_factor |-> size]>>
              negative == StoredSizeFactor([kind |-> "int", int |-> -2, text |-> EmptyStr])
              shapes == {[duration |-> 600, steps |-> step(100, 2)],
                         [duration |-> 600, steps |-> <<>>],
                         [duration |-> 600, steps |-> step(0, 1)],
                         [duration |-> 600, steps |-> step(100, negative)],
                         [duration |-> NoDuration, steps |-> step(100, NullSizeFactor)],
                         [duration |-> 600, steps |-> step(NoDuration, 1)]}
              moments == {Moment([year |-> FirstYear, month |-> 1, day |-> 10], 0),
                          Moment([year |-> FirstYear, month |-> 2, day |-> 20], 0)}
              rows == {StoredBuild(repo, at, s.duration, s.steps) :
                          repo \in Repos, at \in moments, s \in shapes}
          IN  {<<>>} \cup {<<b>> : b \in rows} \cup {<<b, c>> : b \in rows, c \in rows}
    /\ minutes = NotCalculatedRolling
    /\ session = EmptyDb
    /\ last_collect = NotCollected
    /\ provider = <<>>
    /\ enrichment = NotEnhanced
    /\ latest_run = NoRun
    /\ analysis = NotAnalysed
    /\ committed = NothingCommitted
    /\ cycle = NotStarted

NextMinutes == CallCalculateBuildMinutes28To28 \/ CallCalculateBuildMinutes

SpecMinutes == InitMinutes /\ [][NextMinutes]_vars

\* no failure is stored yet; the logs ingested differ in noise
InitNoise ==
    /\ findings = {}
    /\ diagnostics = <<>>
    /\ error_msg = EmptyStr
    /\ pattern = None
    /\ step_logs = <<>>
    /\ failed_steps_data = NotReturned
    /\ failures = <<>>
    /\ other_repos = NotAsked
    /\ builds = <<>>
    /\ cutoff_date = 1
    /\ regression = NotDetected
    /\ step_regression = NotDetected
    /\ cross_regression = NotDetected
    /\ steps = <<>>
    /\ waste_findings = NotAnalyzed
    /\ reference_date = NoDate
    /\ minutes28 = NotCalculated
    /\ build_store = <<>>
    /\ minutes = NotCalculatedRolling
    /\ session = EmptyDb
    /\ last_collect = NotCollected
    /\ provider = <<>>
    /\ enrichment = NotEnhanced
    /\ latest_run = NoRun
    /\ analysis = NotAnalysed
    /\ committed = NothingCommitted
    /\ cycle = NotStarted

NextNoise == CollectNoisyBuilds \/ CallFindOtherRepos

SpecNoise == InitNoise /\ [][NextNoise]_vars

\* the repository's latest run at the provider, before the analysis
InitLatest ==
    /\ findings = {}
    /\ diagnostics = <<>>
    /\ error_msg = EmptyStr
    /\ pattern = None
    /\ step_logs = <<>>
    /\ failed_steps_data = NotReturned
    /\ failures \in StoredFailures
    /\ other_repos = NotAsked
    /\ builds = <<>>
    /\ cutoff_date = 1
    /\ regression = NotDetected
    /\ step_regression = NotDetected
    /\ cross_regression = NotDetected
    /\ steps = <<>>
    /\ waste_findings = NotAnalyzed
    /\ reference_date = NoDate
    /\ minutes28 = NotCalculated
    /\ build_store = <<>>
    /\ minutes = NotCalculatedRolling
    /\ session = EmptyDb
    /\ last_collect = NotCollected
    /\ provider = <<>>
    /\ enrichment = NotEnhanced
    /\ latest_run \in LatestRuns
    /\ analysis = NotAnalysed
    /\ committed = NothingCommitted
    /\ cycle = NotStarted

NextLatest == CallAnalyzeLatestFailure

SpecLatest == InitLatest /\ [][NextLatest]_vars

\* nothing is collected yet; the provider's answers are those of each poll
InitPoll ==
    /\ findings = {}
    /\ diagnostics = <<>>
    /\ error_msg = EmptyStr
    /\ pattern = None
    /\ step_logs = <<>>
    /\ failed_steps_data = NotReturned
    /\ failures = <<>>
    /\ other_repos = NotAsked
    /\ builds = <<>>
    /\ cutoff_date = 1
    /\ regression = NotDetected
    /\ step_regression = NotDetected
    /\ cross_regression = NotDetected
    /\ steps = <<>>
    /\ waste_findings = NotAnalyzed
    /\ reference_date = NoDate
    /\ minutes28 = NotCalculated
    /\ build_store = <<>>
    /\ minutes = NotCalculatedRolling
    /\ session = EmptyDb
    /\ last_collect = NotCollected
    /\ provider = <<>>
    /\ enrichment = NotEnhanced
    /\ latest_run = NoRun
    /\ analysis = NotAnalysed
    /\ committed = NothingCommitted
    /\ cycle = NotStarted

NextPoll == PollBuilds

SpecPoll == InitPoll /\ [][NextPoll]_vars

\* the latest run has failed steps; it is neither collected nor analysed yet
InitLogs ==
    /\ findings = {}
    /\ diagnostics = <<>>
    /\ error_msg = EmptyStr
    /\ pattern = None
    /\ step_logs \in UNION {[1..n -> FailedSteps] : n \in 1..MaxFailedSteps}
    /\ failed_steps_data = NotReturned
    /\ failures = <<>>
    /\ other_repos = NotAsked
    /\ builds = <<>>
    /\ cutoff_date = 1
    /\ regression = NotDetected
    /\ step_regression = NotDetected
    /\ cross_regression = NotDetected
    /\ steps = <<>>
    /\ waste_findings = NotAnalyzed
    /\ reference_date = NoDate
    /\ minutes28 = NotCalculated
    /\ build_store = <<>>
    /\ minutes = NotCalculatedRolling
    /\ session = EmptyDb
    /\ last_collect = NotCollected
    /\ provider = <<>>
    /\ enrichment = NotEnhanced
    /\ latest_run = NoRun
    /\ analysis = NotAnalysed
    /\ committed = NothingCommitted
    /\ cycle = NotStarted

NextLogs == CollectFailedRun \/ GetFailedStepLogs

SpecLogs == InitLogs /\ [][NextLogs]_vars

\* both cycles are about to start; nothing is stored
InitOverlap ==
    /\ findings = {}
    /\ diagnostics = <<>>
    /\ error_msg = EmptyStr
    /\ pattern = None
    /\ step_logs = <<>>
    /\ failed_steps_data = NotReturned
    /\ failures = <<>>
    /\ other_repos = NotAsked
    /\ builds = <<>>
    /\ cutoff_date = 1
    /\ regression = NotDetected
    /\ step_regression = NotDetected
    /\ cross_regression = NotDetected
    /\ steps = <<>>
    /\ waste_findings = NotAnalyzed
    /\ reference_date = NoDate
    /\ minutes28 = NotCalculated
    /\ build_store = <<>>
    /\ minutes = NotCalculatedRolling
    /\ session = EmptyDb
    /\ last_collect = NotCollected
    /\ provider = <<>>
    /\ enrichment = NotEnhanced
    /\ latest_run = NoRun
    /\ analysis = NotAnalysed
    /\ committed = NothingCommitted
    /\ cycle = NotStarted

NextOverlap == ScheduledTick \/ OnDemandTrigger

SpecOverlap == InitOverlap /\ [][NextOverlap]_vars

\* the history of a repository some of whose builds or steps took no time
InitZero ==
    /\ findings = {}
    /\ diagnostics = <<>>
    /\ error_msg = EmptyStr
    /\ pattern = None
    /\ step_logs = <<>>
    /\ failed_steps_data = NotReturned
    /\ failures = <<>>
    /\ other_repos = NotAsked
    /\ builds \in {History(Run(a, i) \o Run(b, j) \o Run(c, k)) :
                     a \in ZeroKinds, b \in ZeroKinds, c \in ZeroKinds,
                     i \in RunLengths, j \in RunLengths, k \in RunLengths}
    /\ cutoff_date \in 1..(Len(builds) + 1)
    /\ regression = NotDetected
    /\ step_regression = NotDetected
    /\ cross_regression = NotDetected
    /\ steps = <<>>
    /\ waste_findings = NotAnalyzed
    /\ reference_date = NoDate
    /\ minutes28 = NotCalculated
    /\ build_store = <<>>
    /\ minutes = NotCalculatedRolling
    /\ session = EmptyDb
    /\ last_collect = NotCollected
    /\ provider = <<>>
    /\ enrichment = NotEnhanced
    /\ latest_run = NoRun
    /\ analysis = NotAnalysed
    /\ committed = NothingCommitted
    /\ cycle = NotStarted

NextZero == CallDetectBuildDurationRegression \/ CallDetectStepRegression

SpecZero == InitZero /\ [][NextZero]_vars

====
